---------------------------- MODULE Spec2Model ----------------------------
(***************************************************************************)
(* The wiki-link corpus of the journal: the SQLite store of links and      *)
(* aliases (database/queries.ts and its schema), the WikiLinkService       *)
(* cache over it and the vault scan of VaultService, as a state machine    *)
(* whose steps are the database statements and the continuations that run  *)
(* between two awaits.                                                     *)
(*                                                                         *)
(* A text is a sequence of one-character strings.                          *)
(***************************************************************************)
EXTENDS Integers, Sequences, FiniteSets, TLC

\* ------------------------------------------------------------------ bounds

\* The clock takes the values 1 .. MaxTicks, in units of TickMs.
MaxTicks == 2
\* AUTOINCREMENT ids handed out between two resets of the database.
MaxId == 4
\* The largest frequency an upsert writes: an addLink starts, and an UPDATE
\* is made, only below it.
MaxFreq == 2

\* The ids uuidv4 hands out to sessions and messages.
MaxUuid == 4
\* The steps the clock of the conversations takes.
MaxWaits == 3

\* --------------------------------------------------------------- constants

CACHE_TTL_MS == 3600000
\* One tick of the model's clock: the cache's time to live, so that a load in
\* one tick expires exactly at the next.
TickMs == CACHE_TTL_MS

\* ------------------------------------------------------------------ strings

UpperChars == <<"A","B","C","D","E","F","G","H","I","J","K","L","M",
                "N","O","P","Q","R","S","T","U","V","W","X","Y","Z">>

LowerChars == <<"a","b","c","d","e","f","g","h","i","j","k","l","m",
                "n","o","p","q","r","s","t","u","v","w","x","y","z">>

DigitChars == {"0","1","2","3","4","5","6","7","8","9"}

IsUpper(c) == \E i \in 1..26 : UpperChars[i] = c

IsLower(c) == \E i \in 1..26 : LowerChars[i] = c

ToLowerChar(c) ==
    IF IsUpper(c) THEN LowerChars[CHOOSE i \in 1..26 : UpperChars[i] = c] ELSE c

\* String.prototype.toLowerCase
ToLowerCase(s) == [i \in 1..Len(s) |-> ToLowerChar(s[i])]

\* s.substring(i - 1, j) with 1-based inclusive bounds
Slice(s, i, j) == [k \in 1..(j - i + 1) |-> s[i + k - 1]]

\* sub occurs in s at position i
OccursAt(s, sub, i) ==
    /\ i >= 1
    /\ i + Len(sub) - 1 <= Len(s)
    /\ \A k \in 1..Len(sub) : s[i + k - 1] = sub[k]

\* String.prototype.includes
Includes(s, sub) == \E i \in 1..(Len(s) + 1) : OccursAt(s, sub, i)

EndsWith(s, sub) == OccursAt(s, sub, Len(s) - Len(sub) + 1)

\* String.prototype.trim, the only white space of the model being " "
Trim(s) ==
    LET idx == {i \in 1..Len(s) : s[i] /= " "}
    IN  IF idx = {} THEN <<>>
        ELSE Slice(s, CHOOSE i \in idx : \A j \in idx : i <= j,
                      CHOOSE i \in idx : \A j \in idx : i >= j)

\* String.prototype.split(' ')
RECURSIVE SplitFrom(_, _, _)
SplitFrom(s, i, cur) ==
    IF i > Len(s) THEN <<cur>>
    ELSE IF s[i] = " " THEN <<cur>> \o SplitFrom(s, i + 1, <<>>)
    ELSE SplitFrom(s, i + 1, Append(cur, s[i]))

Split(s) == SplitFrom(s, 1, <<>>)

\* The aliases as they were pushed.
KeepAll(xs) == xs

\* [...new Set(xs)]: the first occurrence of each element, in order
RECURSIVE Dedup(_)
Dedup(xs) ==
    IF xs = <<>> THEN <<>>
    ELSE LET r == Dedup(SubSeq(xs, 1, Len(xs) - 1))
             x == xs[Len(xs)]
         IN  IF \E i \in 1..Len(r) : r[i] = x THEN r ELSE Append(r, x)

Range(xs) == {xs[i] : i \in 1..Len(xs)}


\* ------------------------------------------------- WikiLinkService, pure

PlaceWords == {
    <<"n","a","t","i","o","n","a","l"," ","p","a","r","k">>,
    <<"2","0","2","5">>,
    <<"2","0","2","6">>,
    <<"j","a","p","a","n">>,
    <<"m","t",".">>,
    <<"l","a","k","e"," ">>,
    <<"r","i","v","e","r"," ">> }

ConceptWords == {
    <<"l","o","r","d">>,
    <<"c","h","r","i","s","t">>,
    <<"g","o","d">>,
    <<"h","e","a","v","e","n","l","y"," ","f","a","t","h","e","r">>,
    <<"h","o","l","y"," ","g","h","o","s","t">>,
    <<"f","a","i","t","h">>,
    <<"g","o","s","p","e","l">> }

\* /^\d{1,2}\.\d{2}\.\d{2}$/
IsDatePattern(s) ==
    \E d \in {1, 2} :
        /\ Len(s) = d + 6
        /\ \A i \in 1..d : s[i] \in DigitChars
        /\ s[d + 1] = "." /\ s[d + 2] \in DigitChars /\ s[d + 3] \in DigitChars
        /\ s[d + 4] = "." /\ s[d + 5] \in DigitChars /\ s[d + 6] \in DigitChars

\* [A-Z][a-z]+
IsCapitalizedWord(w) ==
    /\ Len(w) >= 2
    /\ IsUpper(w[1])
    /\ \A i \in 2..Len(w) : IsLower(w[i])

\* /^[A-Z][a-z]+ [A-Z][a-z]+$/
IsPersonPattern(s) ==
    LET parts == Split(s)
    IN  Len(parts) = 2 /\ IsCapitalizedWord(parts[1]) /\ IsCapitalizedWord(parts[2])

\* /National Park|2025|2026|Park$|Japan|Mt\.|Lake |River /i
IsPlacePattern(s) ==
    \/ \E w \in PlaceWords : Includes(ToLowerCase(s), w)
    \/ EndsWith(ToLowerCase(s), <<"p","a","r","k">>)

\* /^(Lord|Christ|God|Heavenly Father|Holy Ghost|Faith|Gospel)$/i
IsConceptPattern(s) == ToLowerCase(s) \in ConceptWords

\* Placing a name before being a person.
categorizePlaceFirst(text) ==
    IF IsDatePattern(text) THEN "date"
    ELSE IF IsPlacePattern(text) THEN "place"
    ELSE IF IsPersonPattern(text) THEN "person"
    ELSE IF IsConceptPattern(text) THEN "concept"
    ELSE "unknown"

categorizeLink(text) ==
    IF IsDatePattern(text) THEN "date"
    ELSE IF IsPersonPattern(text) THEN "person"
    ELSE IF IsPlacePattern(text) THEN "place"
    ELSE IF IsConceptPattern(text) THEN "concept"
    ELSE "unknown"

generateAliases(text) ==
    LET parts == Split(text)
        full  == <<ToLowerCase(text)>>
        first == IF Includes(text, <<" ">>) THEN <<ToLowerCase(parts[1])>> ELSE <<>>
        last  == IF Includes(text, <<" ">>) /\ Len(parts) = 2
                 THEN <<ToLowerCase(parts[2])>> ELSE <<>>
    IN  Dedup(full \o first \o last)


\* /\[\[([^\]]+)\]\]/g, run with exec until it returns null: the captured groups
RECURSIVE ExecAllFrom(_, _)
ExecAllFrom(s, i) ==
    IF i + 4 > Len(s) THEN <<>>
    ELSE IF ~OccursAt(s, <<"[","[">>, i) THEN ExecAllFrom(s, i + 1)
    ELSE LET closing == {j \in (i + 2)..Len(s) : s[j] = "]"}
             j == IF closing = {} THEN 0
                  ELSE CHOOSE x \in closing : \A y \in closing : x <= y
         IN  IF j > i + 2 /\ OccursAt(s, <<"]","]">>, j)
             THEN <<Slice(s, i + 2, j - 1)>> \o ExecAllFrom(s, j + 2)
             ELSE ExecAllFrom(s, i + 1)

ExecAll(s) == ExecAllFrom(s, 1)

\* extractWikiLinks: [...new Set(found)] keeps the first of equal captures
extractWikiLinks(markdown) == Dedup(ExecAll(markdown))

\* ------------------------------------------------------- the model's inputs

NaSt == <<"N","a"," ","S","t">>
Na == <<"N","a">>
na == <<"n","a">>

\* The texts handed to addLink.
Texts == {NaSt, Na, na}

Wrap(t) == <<"[","[">> \o t \o <<"]","]">>

\* A file is its content, or Unreadable when readTextFile gives null.
Unreadable == <<"\n">>
DocA == Wrap(NaSt) \o <<" ">> \o Wrap(Na)
DocB == Wrap(<<" ">> \o na \o <<" ">>) \o Wrap(Na)
DocPlain == <<"n","a"," ","[","[","]","]">>

\* The markdown files a scan may find under the vault path, in walk order.
Vaults == { <<>>, <<DocPlain>>, <<DocA>>, <<DocA, DocB>>, <<Unreadable, DocA>> }

\* -------------------------------------------------------------------- state

VARIABLES
    now,                \* Date.now(), in ms
    wiki_links,         \* table wiki_links: a set of rows
    wiki_link_aliases,  \* table wiki_link_aliases: its rows in rowid order
    sqlite_sequence,    \* the largest id AUTOINCREMENT has given to wiki_links
    schema,             \* the tables exist (FALSE between DROP and CREATE)
    cache,              \* WikiLinkService.cache: the Map's entries in insertion order
    cacheExpiry,        \* WikiLinkService.cacheExpiry, in ms
    config,             \* VaultService.config is set
    wr,                 \* each running addLink / bulkAddLinks
    scan,               \* the running scanVaultForLinks, and the scanProgress it reports
    rd,                 \* each running loadLinks
    sessions,           \* table sessions: a set of rows
    messages,           \* table messages: a set of rows
    uuid,               \* the number of ids uuidv4 has generated
    gs,                 \* each mounted ChatInterface's initSession
    chat                \* each mounted ChatInterface: its state and its sendUserMessage

vars == <<now, wiki_links, wiki_link_aliases, sqlite_sequence, schema, cache,
          cacheExpiry, config, wr, scan, rd, sessions, messages, uuid, gs, chat>>

\* The conversations: their tables, and the chat screens over them.
conv == <<sessions, messages, uuid, gs, chat>>

store == <<wiki_links, wiki_link_aliases, sqlite_sequence, schema>>

\* The callers of addLink (ReviewScreen.doSave), and the scan's bulkAddLinks.
Savers == {"save1", "save2"}
Upserters == Savers \cup {"scan"}
Readers == {"reader"}

NoRow == [id |-> 0, frequency |-> 0]

\* A call that is not running; alert is the Alert doSave showed when the call
\* was one of its addLink.
IdleWr == [pc |-> "idle", q |-> <<>>, existing |-> NoRow, id |-> 0, k |-> 0,
           alert |-> "none"]

\* doSave after its last addLink returned: Alert.alert('Saved!', ...)
Saved(p) == [IdleWr EXCEPT !.alert = IF p = "scan" THEN "none" ELSE "Saved!"]

\* The catch of doSave: Alert.alert('Error', ...)
SaveError(p) == [IdleWr EXCEPT !.alert = IF p = "scan" THEN "none" ELSE "Error"]

\* setScanProgress({ current: 0, total: 0 }) of handleRescan
NoProgress == [current |-> 0, total |-> 0]

IdleScan(pc, ret) ==
    [pc |-> pc, files |-> <<>>, listed |-> TRUE, i |-> 0, linksMap |-> <<>>, ret |-> ret,
     progress |-> NoProgress]

\* The mounted chat screens.
Mounts == {"chat1", "chat2"}

\* No session: the null of getActiveSession and of getSession.
NoSession ==
    [id |-> 0, sessionType |-> "none", date |-> 0, startTime |-> 0,
     lastInteraction |-> 0, isActive |-> FALSE]

\* No message: addMessage is not running.
NoMessage ==
    [id |-> 0, session_id |-> 0, role |-> "none", content |-> <<>>, timestamp |-> 0,
     date |-> 0]

\* An initSession that is not running.
IdleGs ==
    [pc |-> "idle", sessionType |-> "none", today |-> 0, existing |-> NoSession,
     session |-> NoSession, endTime |-> 0, msg |-> NoMessage]

\* A chat screen as useState leaves it, with no sendUserMessage running:
\* messages is the list on the screen, the other fields from text on are the
\* locals of sendUserMessage and of the withRetry it runs.
IdleChat ==
    [pc |-> "idle", sessionId |-> 0, messages |-> <<>>, isTyping |-> FALSE,
     alert |-> "none", text |-> <<>>, tempId |-> 0, msg |-> NoMessage, endTime |-> 0,
     attempt |-> 0, calls |-> 0, delays |-> <<>>, lastError |-> "Unknown error",
     thrown |-> "none"]

\* The tables of a new database file, and no chat screen mounted yet.
NoConversations ==
    /\ sessions = {}
    /\ messages = {}
    /\ uuid = 0
    /\ gs = [m \in Mounts |-> IdleGs]
    /\ chat = [m \in Mounts |-> IdleChat]

IdleRd(out) ==
    [pc |-> "idle", op |-> "none", arg |-> <<>>, rows |-> <<>>, i |-> 0,
     links |-> <<>>, out |-> out, res |-> <<>>]

Init ==
    /\ now = TickMs
    /\ wiki_links = {}
    /\ wiki_link_aliases = <<>>
    /\ sqlite_sequence = 0
    /\ schema = TRUE
    /\ cache = <<>>
    /\ cacheExpiry = 0
    /\ config = FALSE
    /\ wr = [p \in Upserters |-> IdleWr]
    /\ scan = IdleScan("idle", 0)
    /\ rd = [r \in Readers |-> IdleRd("none")]
    /\ NoConversations


\* ------------------------------------------------------ database/queries.ts

\* SELECT id, frequency FROM wiki_links WHERE text = ?
SelectByText(text) ==
    IF \E r \in wiki_links : r.text = text
    THEN LET r == CHOOSE x \in wiki_links : x.text = text
         IN  [id |-> r.id, frequency |-> r.frequency]
    ELSE NoRow

\* text TEXT UNIQUE NOT NULL
UniqueTextHolds(text) == ~\E r \in wiki_links : r.text = text

\* A connection that does not enforce foreign keys.
ForeignKeysOff(linkId) == TRUE

\* FOREIGN KEY (link_id) REFERENCES wiki_links(id), under PRAGMA foreign_keys = ON
ForeignKeyHolds(linkId) == \E r \in wiki_links : r.id = linkId

\* An UPDATE that writes the frequency the caller gave.
UpsertFrequencyGiven(existing, link) == link.frequency

\* The frequency the UPDATE of upsertWikiLink writes.
UpsertFrequency(existing, link) == existing.frequency + 1

\* UPDATE wiki_links SET frequency = ?, last_used = ?, type = ? WHERE id = ?
UpdateById(id, frequency, lastUsed, type) ==
    { IF r.id = id
      THEN [r EXCEPT !.frequency = frequency, !.last_used = lastUsed, !.type = type]
      ELSE r : r \in wiki_links }

\* INSERT INTO wiki_links (text, type, frequency, first_seen, last_used)
InsertedRow(link) ==
    [id |-> sqlite_sequence + 1, text |-> link.text, type |-> link.type,
     frequency |-> link.frequency, first_seen |-> link.firstSeen,
     last_used |-> link.lastUsed]

\* An alias row bound to the id of the last INSERT into wiki_links.
AliasRowOfLastInsert(linkId, alias) ==
    [link_id |-> sqlite_sequence, alias |-> ToLowerCase(alias)]

\* The row insertWikiLinkAlias inserts.
AliasRow(linkId, alias) == [link_id |-> linkId, alias |-> ToLowerCase(alias)]

\* INSERT OR IGNORE INTO wiki_link_aliases: no constraint of the table makes
\* a second (link_id, alias) row a conflict, so nothing is ignored.
InsertAliasRow(rows, linkId, alias) == Append(rows, AliasRow(linkId, alias))

getWikiLinkCount == Cardinality(wiki_links)

\* scanVaultForLinks returns ret: the scanProgress of the screen stays as the
\* last onProgress set it.
ScanReturns(ret) == [IdleScan("done", ret) EXCEPT !.progress = scan.progress]

\* The rejection of a call's promise: addLink rejects into the catch of
\* doSave, the scan's catch returns 0. A statement on a table that does not exist rejects too.
Throw(p) ==
    /\ wr' = [wr EXCEPT ![p] = SaveError(p)]
    /\ scan' = IF p = "scan" THEN ScanReturns(0) ELSE scan

\* upsertWikiLink, the SELECT
UpsertSelect(p) ==
    /\ wr[p].pc = "upsert_select"
    /\ IF schema
       THEN /\ wr' = [wr EXCEPT ![p].existing = SelectByText(Head(wr[p].q).text),
                               ![p].pc = "upsert_write"]
            /\ UNCHANGED scan
       ELSE Throw(p)
    /\ UNCHANGED <<now, store, cache, cacheExpiry, config, rd, conv>>

\* What follows a link's last alias: the next link, or the end of the loop.
NextLink(w) ==
    IF Len(w.q) > 1
    THEN [w EXCEPT !.q = Tail(w.q), !.pc = "upsert_select", !.existing = NoRow,
                   !.id = 0, !.k = 0]
    ELSE [w EXCEPT !.pc = "invalidate", !.existing = NoRow, !.k = 0]

\* The call after upsertWikiLink returned id.
Upserted(w, id) ==
    IF Len(Head(w.q).aliases) = 0 THEN NextLink([w EXCEPT !.id = id])
    ELSE [w EXCEPT !.pc = "alias", !.id = id, !.k = 1, !.existing = NoRow]

\* upsertWikiLink, the UPDATE or the INSERT
UpsertWrite(p) ==
    LET w == wr[p]
        link == Head(w.q)
    IN  /\ w.pc = "upsert_write"
        /\ IF ~schema
           THEN /\ Throw(p)
                /\ UNCHANGED <<wiki_links, sqlite_sequence>>
           ELSE IF w.existing /= NoRow
           THEN /\ w.existing.frequency < MaxFreq
                /\ wiki_links' = UpdateById(w.existing.id,
                                            UpsertFrequency(w.existing, link),
                                            now, link.type)
                /\ wr' = [wr EXCEPT ![p] = Upserted(w, w.existing.id)]
                /\ UNCHANGED <<sqlite_sequence, scan>>
           ELSE IF ~UniqueTextHolds(link.text)
           THEN /\ Throw(p)
                /\ UNCHANGED <<wiki_links, sqlite_sequence>>
           ELSE /\ sqlite_sequence < MaxId
                /\ wiki_links' = wiki_links \cup {InsertedRow(link)}
                /\ sqlite_sequence' = sqlite_sequence + 1
                /\ wr' = [wr EXCEPT ![p] = Upserted(w, sqlite_sequence + 1)]
                /\ UNCHANGED scan
        /\ UNCHANGED <<now, wiki_link_aliases, schema, cache, cacheExpiry, config, rd,
                   conv>>

insertWikiLinkAlias(p) ==
    LET w == wr[p]
        link == Head(w.q)
    IN  /\ w.pc = "alias"
        /\ IF schema /\ ForeignKeyHolds(w.id)
           THEN /\ wiki_link_aliases' =
                       InsertAliasRow(wiki_link_aliases, w.id, link.aliases[w.k])
                /\ wr' = [wr EXCEPT ![p] = IF w.k < Len(link.aliases)
                                           THEN [w EXCEPT !.k = w.k + 1]
                                           ELSE NextLink(w)]
                /\ UNCHANGED scan
           ELSE /\ Throw(p)
                /\ UNCHANGED wiki_link_aliases
        /\ UNCHANGED <<now, wiki_links, sqlite_sequence, schema, cache, cacheExpiry,
                       config, rd, conv>>

\* A clear that deletes the aliases and keeps the entities.
clearAliasesOnly ==
    /\ scan.pc = "clear"
    /\ wiki_link_aliases' = <<>>
    /\ scan' = [scan EXCEPT !.pc = "clear_done"]
    /\ UNCHANGED <<now, wiki_links, sqlite_sequence, schema, cache, cacheExpiry,
                   config, wr, rd, conv>>

\* DELETE FROM wiki_link_aliases; DELETE FROM wiki_links;
clearWikiLinks ==
    /\ scan.pc = "clear"
    /\ IF schema
       THEN /\ wiki_links' = {}
            /\ wiki_link_aliases' = <<>>
            /\ scan' = [scan EXCEPT !.pc = "clear_done"]
       ELSE /\ scan' = ScanReturns(0)
            /\ UNCHANGED <<wiki_links, wiki_link_aliases>>
    /\ UNCHANGED <<now, sqlite_sequence, schema, cache, cacheExpiry, config, wr, rd,
                   conv>>

\* resetDatabase (handleClearHistory), its first statement: DROP TABLE of
\* every table. The dropped wiki_links takes its AUTOINCREMENT counter with it.
resetDatabase ==
    /\ schema
    /\ wiki_links' = {}
    /\ wiki_link_aliases' = <<>>
    /\ sqlite_sequence' = 0
    /\ schema' = FALSE
    /\ sessions' = {}
    /\ messages' = {}
    /\ UNCHANGED <<now, cache, cacheExpiry, config, wr, scan, rd, uuid, gs, chat>>

\* resetDatabase, its second statement: the CREATE TABLEs of initializeSchema.
initializeSchema ==
    /\ ~schema
    /\ schema' = TRUE
    /\ UNCHANGED <<now, wiki_links, wiki_link_aliases, sqlite_sequence, cache,
                   cacheExpiry, config, wr, scan, rd, conv>>


\* ---------------------------------------------------------- WikiLinkService

\* new Date(0), the expiry invalidateCache stores
InvalidExpiry == 0

NewLink(text, time) ==
    [text |-> text, type |-> categorizeLink(text), frequency |-> 1,
     aliases |-> generateAliases(text), firstSeen |-> time, lastUsed |-> time]

\* doSave after writeEntry succeeded on an entry with the one mention text:
\* addLink(text), up to the first await of upsertWikiLink
addLink(p, text) ==
    /\ p \in Savers
    /\ wr[p].pc = "idle"
    /\ SelectByText(text).frequency < MaxFreq
    /\ wr' = [wr EXCEPT ![p] = [IdleWr EXCEPT !.pc = "upsert_select",
                                                      !.q = <<NewLink(text, now)>>]]
    /\ UNCHANGED <<now, store, cache, cacheExpiry, config, scan, rd, conv>>

\* The end of addLink and of bulkAddLinks: this.invalidateCache(), and the
\* return, to the Alert of doSave or into scanVaultForLinks.
invalidateCache(p) ==
    /\ wr[p].pc = "invalidate"
    /\ cacheExpiry' = InvalidExpiry
    /\ wr' = [wr EXCEPT ![p] = Saved(p)]
    /\ scan' = IF p = "scan" THEN ScanReturns(Len(scan.linksMap)) ELSE scan
    /\ UNCHANGED <<now, store, cache, config, rd, conv>>

\* A freshness test on the expiry alone.
IsCacheUnexpired == now < cacheExpiry

\* this.cache.size > 0 && new Date() < this.cacheExpiry
IsCacheFresh == Len(cache) > 0 /\ now < cacheExpiry

\* Map.prototype.set on the entries in insertion order
CacheSet(c, key, link) ==
    IF \E i \in 1..Len(c) : c[i].key = key
    THEN [i \in 1..Len(c) |-> IF c[i].key = key THEN [key |-> key, link |-> link]
                                                ELSE c[i]]
    ELSE Append(c, [key |-> key, link |-> link])

RECURSIVE SetAliases(_, _, _)
SetAliases(c, link, k) ==
    IF k > Len(link.aliases) THEN c
    ELSE SetAliases(CacheSet(c, ToLowerCase(link.aliases[k]), link), link, k + 1)

\* The loop of loadLinks over the links getAllWikiLinks returned
RECURSIVE BuildCache(_, _)
BuildCache(c, links) ==
    IF links = <<>> THEN c
    ELSE BuildCache(SetAliases(CacheSet(c, ToLowerCase(Head(links).text), Head(links)),
                               Head(links), 1),
                    Tail(links))

\* SELECT * FROM wiki_links ORDER BY frequency DESC: every order of the rows
\* that the clause allows
OrderedByFrequency(rows) ==
    LET n == Cardinality(rows)
    IN  { s \in [1..n -> rows] :
            /\ \A i, j \in 1..n : i /= j => s[i] /= s[j]
            /\ \A i \in 1..n : \A j \in 1..n : i < j => s[i].frequency >= s[j].frequency }

\* SELECT * FROM wiki_link_aliases WHERE link_id = ?, mapped to the alias
AliasesOf(linkId) ==
    LET rows == SelectSeq(wiki_link_aliases, LAMBDA a : a.link_id = linkId)
    IN  [i \in 1..Len(rows) |-> rows[i].alias]

\* The WikiLink getAllWikiLinks builds of a row
RowToLink(row) ==
    [id |-> row.id, text |-> row.text, type |-> row.type, frequency |-> row.frequency,
     aliases |-> AliasesOf(row.id), firstSeen |-> row.first_seen,
     lastUsed |-> row.last_used]

\* A call of the service by a reader: op(arg), not yet begun.
Call(op, arg) == [IdleRd("none") EXCEPT !.op = op, !.arg = arg]

\* The call t when its loadLinks has returned: a call of loadLinks itself is
\* over, one of findMatch, suggestLinks or autoLinkText goes on after its
\* await this.loadLinks().
LoadDone(t, out) ==
    IF t.op = "loadLinks" THEN IdleRd(out)
    ELSE [t EXCEPT !.pc = t.op, !.out = out, !.rows = <<>>, !.i = 0, !.links = <<>>]

\* The guard of loadLinks
LoadStart(t) ==
    IF IsCacheFresh THEN LoadDone(t, "noop") ELSE [t EXCEPT !.pc = "select_links"]

\* The call t returns res.
Return(t, res) == [IdleRd(t.out) EXCEPT !.op = t.op, !.arg = t.arg, !.res = res]

\* loadLinks, up to the first await of getAllWikiLinks
loadLinks(r) ==
    /\ rd[r].pc = "idle"
    /\ rd' = [rd EXCEPT ![r] = LoadStart(Call("loadLinks", <<>>))]
    /\ UNCHANGED <<now, store, cache, cacheExpiry, config, wr, scan, conv>>

\* getAllWikiLinks, the SELECT of the rows
getAllWikiLinksRows(r) ==
    /\ rd[r].pc = "select_links"
    /\ IF schema
       THEN \E rows \in OrderedByFrequency(wiki_links) :
               rd' = [rd EXCEPT ![r].rows = rows, ![r].i = 1,
                                ![r].pc = IF rows = <<>> THEN "fill"
                                          ELSE "select_aliases"]
       ELSE rd' = [rd EXCEPT ![r] = IdleRd("error")]
    /\ UNCHANGED <<now, store, cache, cacheExpiry, config, wr, scan, conv>>

\* getAllWikiLinks, the SELECT of one row's aliases
getAllWikiLinksAliases(r) ==
    LET t == rd[r]
    IN  /\ t.pc = "select_aliases"
        /\ IF schema
           THEN rd' = [rd EXCEPT ![r].links = Append(t.links, RowToLink(t.rows[t.i])),
                                 ![r].i = t.i + 1,
                                 ![r].pc = IF t.i = Len(t.rows) THEN "fill"
                                           ELSE "select_aliases"]
           ELSE rd' = [rd EXCEPT ![r] = IdleRd("error")]
        /\ UNCHANGED <<now, store, cache, cacheExpiry, config, wr, scan, conv>>

\* loadLinks after getAllWikiLinks returned: the cache is rebuilt
loadLinksFill(r) ==
    /\ rd[r].pc = "fill"
    /\ cache' = BuildCache(<<>>, rd[r].links)
    /\ cacheExpiry' = now + CACHE_TTL_MS
    /\ rd' = [rd EXCEPT ![r] = LoadDone(rd[r], "reload")]
    /\ UNCHANGED <<now, store, config, wr, scan, conv>>

\* this.cache.has(key) and this.cache.get(key)
CacheHas(c, key) == \E i \in 1..Len(c) : c[i].key = key

CacheGet(c, key) == c[CHOOSE i \in 1..Len(c) : c[i].key = key].link

\* The WikiLink findWikiLinkByAlias builds of a row: aliases: []
RowToBareLink(row) ==
    [id |-> row.id, text |-> row.text, type |-> row.type, frequency |-> row.frequency,
     aliases |-> <<>>, firstSeen |-> row.first_seen, lastUsed |-> row.last_used]

\* A lookup with the input as it was typed.
FindKeyAsTyped(text) == text

\* const lower = text.toLowerCase(), the key of every lookup of findMatch
FindKey(text) == ToLowerCase(text)

\* findMatch, up to the first await of its loadLinks
findMatch(r, text) ==
    /\ rd[r].pc = "idle"
    /\ rd' = [rd EXCEPT ![r] = LoadStart(Call("findMatch", text))]
    /\ UNCHANGED <<now, store, cache, cacheExpiry, config, wr, scan, conv>>

\* findMatch after loadLinks returned: the exact match
findMatchExact(r) ==
    LET t == rd[r]
        lower == FindKey(t.arg)
    IN  /\ t.pc = "findMatch"
        /\ rd' = [rd EXCEPT ![r] = IF CacheHas(cache, lower)
                                   THEN Return(t, <<CacheGet(cache, lower)>>)
                                   ELSE [t EXCEPT !.pc = "alias_select"]]
        /\ UNCHANGED <<now, store, cache, cacheExpiry, config, wr, scan, conv>>

\* findWikiLinkByAlias: SELECT * FROM wiki_link_aliases WHERE alias = ? LIMIT 1,
\* any of the rows of that alias
findWikiLinkByAlias(r) ==
    LET t == rd[r]
        lower == FindKey(t.arg)
        found == {k \in 1..Len(wiki_link_aliases) : wiki_link_aliases[k].alias = lower}
    IN  /\ t.pc = "alias_select"
        /\ IF ~schema THEN rd' = [rd EXCEPT ![r] = IdleRd("error")]
           ELSE IF found = {} THEN rd' = [rd EXCEPT ![r].pc = "text_select"]
           ELSE \E k \in found :
                   rd' = [rd EXCEPT ![r].i = wiki_link_aliases[k].link_id,
                                    ![r].pc = "link_select"]
        /\ UNCHANGED <<now, store, cache, cacheExpiry, config, wr, scan, conv>>

\* findWikiLinkByAlias: SELECT * FROM wiki_links WHERE id = ?; no row makes
\* dbMatch null, and findMatch goes on to the partial match
findWikiLinkById(r) ==
    LET t == rd[r]
        found == {row \in wiki_links : row.id = t.i}
    IN  /\ t.pc = "link_select"
        /\ IF ~schema THEN rd' = [rd EXCEPT ![r] = IdleRd("error")]
           ELSE IF found = {} THEN rd' = [rd EXCEPT ![r].pc = "partial", ![r].i = 0]
           ELSE \E row \in found :
                   rd' = [rd EXCEPT ![r] = Return(t, <<RowToBareLink(row)>>)]
        /\ UNCHANGED <<now, store, cache, cacheExpiry, config, wr, scan, conv>>

\* findWikiLinkByAlias: SELECT * FROM wiki_links WHERE LOWER(text) = ? LIMIT 1
findWikiLinkByText(r) ==
    LET t == rd[r]
        lower == FindKey(t.arg)
        found == {row \in wiki_links : ToLowerCase(row.text) = lower}
    IN  /\ t.pc = "text_select"
        /\ IF ~schema THEN rd' = [rd EXCEPT ![r] = IdleRd("error")]
           ELSE IF found = {} THEN rd' = [rd EXCEPT ![r].pc = "partial"]
           ELSE \E row \in found :
                   rd' = [rd EXCEPT ![r] = Return(t, <<RowToBareLink(row)>>)]
        /\ UNCHANGED <<now, store, cache, cacheExpiry, config, wr, scan, conv>>

\* The loop of findMatch over this.cache.entries(): the first entry whose key
\* contains the input or is contained in it
PartialMatch(c, lower) ==
    LET hits == {i \in 1..Len(c) : Includes(c[i].key, lower) \/ Includes(lower, c[i].key)}
    IN  IF hits = {} THEN <<>>
        ELSE <<c[CHOOSE i \in hits : \A j \in hits : i <= j].link>>

\* findMatch after findWikiLinkByAlias returned null: the partial match
findMatchPartial(r) ==
    LET t == rd[r]
    IN  /\ t.pc = "partial"
        /\ rd' = [rd EXCEPT ![r] = Return(t, PartialMatch(cache, FindKey(t.arg)))]
        /\ UNCHANGED <<now, store, cache, cacheExpiry, config, wr, scan, conv>>


\* if (results.length >= 5) break
MaxSuggestions == 5

StartsWith(s, sub) == OccursAt(s, sub, 1)

\* The loop of suggestLinks over this.cache.entries(), from entry i on: an
\* entry is skipped when its link's text was seen, taken when its key starts
\* with the input or its link's text contains it, and the loop breaks at five.
RECURSIVE SuggestFrom(_, _, _, _)
SuggestFrom(c, lower, i, results) ==
    IF i > Len(c) \/ Len(results) >= MaxSuggestions THEN results
    ELSE LET key  == c[i].key
             link == c[i].link
             seen == \E k \in 1..Len(results) : results[k].text = link.text
         IN  IF ~seen /\ (StartsWith(key, lower) \/ Includes(ToLowerCase(link.text), lower))
             THEN SuggestFrom(c, lower, i + 1, Append(results, link))
             ELSE SuggestFrom(c, lower, i + 1, results)

\* The results as the loop pushed them.
Unsorted(links) == links

\* results.sort((a, b) => b.frequency - a.frequency): a stable sort, the
\* links of one frequency keep their order.
RECURSIVE SortByFrequency(_)
SortByFrequency(links) ==
    IF links = <<>> THEN <<>>
    ELSE LET top == CHOOSE i \in 1..Len(links) :
                      /\ \A j \in 1..Len(links) : links[j].frequency <= links[i].frequency
                      /\ \A j \in 1..(i - 1) : links[j].frequency < links[i].frequency
         IN  <<links[top]>> \o
             SortByFrequency([k \in 1..(Len(links) - 1) |->
                                 IF k < top THEN links[k] ELSE links[k + 1]])

\* suggestLinks, up to the first await of its loadLinks
suggestLinks(r, partial) ==
    /\ rd[r].pc = "idle"
    /\ rd' = [rd EXCEPT ![r] = LoadStart(Call("suggestLinks", partial))]
    /\ UNCHANGED <<now, store, cache, cacheExpiry, config, wr, scan, conv>>

\* suggestLinks after its loadLinks
suggestLinksCollect(r) ==
    LET t == rd[r]
    IN  /\ t.pc = "suggestLinks"
        /\ rd' = [rd EXCEPT ![r] =
                    Return(t, SortByFrequency(SuggestFrom(cache, ToLowerCase(t.arg), 1, <<>>)))]
        /\ UNCHANGED <<now, store, cache, cacheExpiry, config, wr, scan, conv>>

\* \w of a regular expression without the u flag
IsWordChar(c) == IsUpper(c) \/ IsLower(c) \/ c \in DigitChars \/ c = "_"

\* \b before position i of s: of the characters i - 1 and i, exactly one is a
\* word character, the ends of s counting as none.
WordBoundary(s, i) ==
    LET word(k) == k \in 1..Len(s) /\ IsWordChar(s[k])
    IN  word(i - 1) /= word(i)

\* A match of n characters at position i in any context.
AnyContext(s, i, n) == TRUE

\* (?<!\[\[) before position i and (?!\]\]) after the n characters from i on:
\* the two characters before are not [[, the two characters after are not ]].
NotLinked(s, i, n) ==
    /\ ~(i >= 3 /\ s[i - 2] = "[" /\ s[i - 1] = "[")
    /\ ~(i + n + 1 <= Len(s) /\ s[i + n] = "]" /\ s[i + n + 1] = "]")

\* The escaped text of a link, with or without the i flag, against the
\* characters of s from position i on.
TextAt(s, text, i, ignoreCase) ==
    /\ i + Len(text) - 1 <= Len(s)
    /\ LET found == Slice(s, i, i + Len(text) - 1)
       IN  IF ignoreCase THEN ToLowerCase(found) = ToLowerCase(text) ELSE found = text

\* (?<!\[\[)\bESCAPED\b(?!\]\]) matches at position i of s.
MatchesAt(s, text, i, ignoreCase) ==
    /\ TextAt(s, text, i, ignoreCase)
    /\ WordBoundary(s, i)
    /\ WordBoundary(s, i + Len(text))
    /\ NotLinked(s, i, Len(text))

\* result.replace(re, `[[${link.text}]]`) with the g flag, from position i
\* on: the matches from left to right, none overlapping the one before.
RECURSIVE ReplaceFrom(_, _, _, _)
ReplaceFrom(s, text, i, ignoreCase) ==
    IF i > Len(s) THEN <<>>
    ELSE IF MatchesAt(s, text, i, ignoreCase)
         THEN Wrap(text) \o ReplaceFrom(s, text, i + Len(text), ignoreCase)
         ELSE <<s[i]>> \o ReplaceFrom(s, text, i + 1, ignoreCase)

\* sort((a, b) => b.text.length - a.text.length): a stable sort, the links of
\* one length keep their order.
RECURSIVE SortByLength(_)
SortByLength(links) ==
    IF links = <<>> THEN <<>>
    ELSE LET top == CHOOSE i \in 1..Len(links) :
                      /\ \A j \in 1..Len(links) : Len(links[j].text) <= Len(links[i].text)
                      /\ \A j \in 1..(i - 1) : Len(links[j].text) < Len(links[i].text)
         IN  <<links[top]>> \o
             SortByLength([k \in 1..(Len(links) - 1) |->
                              IF k < top THEN links[k] ELSE links[k + 1]])

\* The loop over the sorted links, each replace working on the result of the
\* one before.
RECURSIVE ReplaceEach(_, _, _)
ReplaceEach(result, links, ignoreCase) ==
    IF links = <<>> THEN result
    ELSE ReplaceEach(ReplaceFrom(result, Head(links).text, 1, ignoreCase),
                     Tail(links), ignoreCase)

\* The loop of autoLinkText over this.cache.values(): the first link of every
\* text, in the order of the Map.
RECURSIVE UniqueLinks(_, _)
UniqueLinks(c, allLinks) ==
    IF c = <<>> THEN allLinks
    ELSE IF \E k \in 1..Len(allLinks) : allLinks[k].text = Head(c).link.text
         THEN UniqueLinks(Tail(c), allLinks)
         ELSE UniqueLinks(Tail(c), Append(allLinks, Head(c).link))

\* An autoLinkText that links the keys of the cache, aliases included.
KeysAutoLink(text, c) ==
    ReplaceEach(text, SortByLength([i \in 1..Len(c) |-> [text |-> c[i].key]]), TRUE)

\* WikiLinkService.autoLinkText on the cache c: the flags gi
ServiceAutoLink(text, c) == ReplaceEach(text, SortByLength(UniqueLinks(c, <<>>)), TRUE)

\* autoLinkText(text, wikiLinks) of database/queries.ts: the flag g
QueriesAutoLink(text, wikiLinks) == ReplaceEach(text, SortByLength(wikiLinks), FALSE)

\* WikiLinkService.autoLinkText, up to the first await of its loadLinks
autoLinkText(r, text) ==
    /\ rd[r].pc = "idle"
    /\ rd' = [rd EXCEPT ![r] = LoadStart(Call("autoLinkText", text))]
    /\ UNCHANGED <<now, store, cache, cacheExpiry, config, wr, scan, conv>>

\* WikiLinkService.autoLinkText after its loadLinks
autoLinkTextReplace(r) ==
    LET t == rd[r]
    IN  /\ t.pc = "autoLinkText"
        /\ rd' = [rd EXCEPT ![r] = Return(t, <<ServiceAutoLink(t.arg, cache)>>)]
        /\ UNCHANGED <<now, store, cache, cacheExpiry, config, wr, scan, conv>>

\* autoLinkText(text, wikiLinks) of database/queries.ts, a synchronous
\* function, on the links getAllWikiLinks returned
autoLinkTextWith(r, text) ==
    /\ rd[r].pc = "idle"
    /\ schema
    /\ \E rows \in OrderedByFrequency(wiki_links) :
          LET wikiLinks == [i \in 1..Len(rows) |-> RowToLink(rows[i])]
          IN  rd' = [rd EXCEPT ![r] =
                        Return(Call("queries.autoLinkText", text),
                               <<QueriesAutoLink(text, wikiLinks)>>)]
    /\ UNCHANGED <<now, store, cache, cacheExpiry, config, wr, scan, conv>>

\* ------------------------------------------------------------- VaultService

\* The body of the while loop of scanVaultForLinks for one match
AddToLinksMap(m, raw, time) ==
    LET linkText == Trim(raw)
    IN  IF linkText = <<>> THEN m
        ELSE IF \E i \in 1..Len(m) : m[i].text = linkText
        THEN [i \in 1..Len(m) |-> IF m[i].text = linkText
                                  THEN [m[i] EXCEPT !.frequency = m[i].frequency + 1]
                                  ELSE m[i]]
        ELSE Append(m, NewLink(linkText, time))

\* A linksMap that takes no match.
NoMatches(m, matches, time) == m

\* linksMap after the matches of one file, in insertion order
RECURSIVE AddMatches(_, _, _)
AddMatches(m, matches, time) ==
    IF matches = <<>> THEN m
    ELSE AddMatches(AddToLinksMap(m, Head(matches), time), Tail(matches), time)

\* readTextFile gave null, or the empty string: if (!content) continue
IsSkipped(file) == file = Unreadable \/ file = <<>>

saveConfig ==
    /\ ~config
    /\ config' = TRUE
    /\ UNCHANGED <<now, store, cache, cacheExpiry, wr, scan, rd, conv>>

\* A scan that asks for the permission whether or not a vault is configured.
scanWithoutConfig ==
    /\ scan.pc \in {"idle", "done"}
    /\ scan' = IdleScan("permission", 0)
    /\ UNCHANGED <<now, store, cache, cacheExpiry, config, wr, rd, conv>>

\* scanVaultForLinks, up to the await of requestStoragePermissions
scanVaultForLinks ==
    /\ scan.pc \in {"idle", "done"}
    /\ scan' = IF config THEN IdleScan("permission", 0) ELSE IdleScan("done", 0)
    /\ UNCHANGED <<now, store, cache, cacheExpiry, config, wr, rd, conv>>

requestStoragePermissions ==
    /\ scan.pc = "permission"
    /\ \E granted \in BOOLEAN :
          scan' = IF granted THEN IdleScan("enumerate", 0) ELSE IdleScan("done", 0)
    /\ UNCHANGED <<now, store, cache, cacheExpiry, config, wr, rd, conv>>

\* getAllMarkdownFiles: walk catches the error of readDirectoryAsync, so a
\* vault that cannot be listed gives the empty list
getAllMarkdownFiles(vaults) ==
    /\ scan.pc = "enumerate"
    /\ \E listed \in BOOLEAN : \E v \in vaults :
          LET files == IF listed THEN v ELSE <<>>
          IN  scan' = [scan EXCEPT !.files = files, !.listed = listed, !.i = 1,
                                   !.pc = IF files = <<>> THEN "clear" ELSE "read"]
    /\ UNCHANGED <<now, store, cache, cacheExpiry, config, wr, rd, conv>>

\* The progress of a scan that calls onProgress for its first file only.
onProgressOnce(current, total) == [current |-> 1, total |-> total]

\* onProgress(i + 1, files.length): the callback of handleRescan sets the
\* scanProgress of the screen.
onProgress(current, total) == [current |-> current, total |-> total]

\* One turn of the loop over the files: onProgress, readTextFile and the
\* matches
readTextFile ==
    LET file == scan.files[scan.i]
    IN  /\ scan.pc = "read"
        /\ scan' = [scan EXCEPT
                      !.linksMap = IF IsSkipped(file) THEN @
                                   ELSE AddMatches(@, ExecAll(file), now),
                      !.i = @ + 1,
                      !.progress = onProgress(scan.i, Len(scan.files)),
                      !.pc = IF scan.i = Len(scan.files) THEN "clear" ELSE "read"]
        /\ UNCHANGED <<now, store, cache, cacheExpiry, config, wr, rd, conv>>

\* clearAllLinks after clearWikiLinks: invalidateCache, then bulkAddLinks(links)
\* up to its first await; with no link it invalidates and returns at once
clearAllLinks ==
    /\ scan.pc = "clear_done"
    /\ cacheExpiry' = InvalidExpiry
    /\ IF scan.linksMap = <<>>
       THEN /\ scan' = ScanReturns(0)
            /\ UNCHANGED wr
       ELSE /\ scan' = [scan EXCEPT !.pc = "bulk"]
            /\ wr' = [wr EXCEPT !["scan"] = [IdleWr EXCEPT
                                               !.pc = "upsert_select",
                                               !.q = scan.linksMap]]
    /\ UNCHANGED <<now, store, cache, config, rd, conv>>

\* ------------------------------------------------------------ specification

Tick ==
    /\ now < MaxTicks * TickMs
    /\ now' = now + TickMs
    /\ UNCHANGED <<store, cache, cacheExpiry, config, wr, scan, rd, conv>>

UpserterStep(p) ==
    \/ UpsertSelect(p)
    \/ UpsertWrite(p)
    \/ insertWikiLinkAlias(p)
    \/ invalidateCache(p)

SaverStep(p, texts) ==
    \/ \E text \in texts : addLink(p, text)
    \/ UpserterStep(p)

ScanStep(vaults) ==
    \/ scanVaultForLinks
    \/ requestStoragePermissions
    \/ getAllMarkdownFiles(vaults)
    \/ readTextFile
    \/ clearWikiLinks
    \/ clearAllLinks
    \/ UpserterStep("scan")

SaverBusy(p) == wr[p].pc /= "idle"
ScanBusy == scan.pc \notin {"idle", "done"}
ReaderBusy(r) == rd[r].pc /= "idle"

\* No call is in flight: no reset, no save, no scan and no load.
Quiescent ==
    /\ schema
    /\ \A p \in Savers : ~SaverBusy(p)
    /\ ~ScanBusy
    /\ \A r \in Readers : ~ReaderBusy(r)

\* The texts and the vaults of the specifications whose calls interleave:
\* two texts that share an alias, two that differ in case only (one alias
\* each), and one text of three aliases.
FewTexts == {NaSt, Na}
CaseTexts == {Na, na}
OneText == {NaSt}
FewVaults == { <<>>, <<DocA>> }

\* Two saves and the reset of the database, interleaving at their awaits.
Next ==
    \/ \E p \in Savers : SaverStep(p, CaseTexts)
    \/ resetDatabase
    \/ initializeSchema

Spec == Init /\ [][Next]_vars

\* A scan, a save and the reset of the database, interleaving at their awaits.
ScanNext ==
    \/ SaverStep("save1", OneText)
    \/ ScanStep(FewVaults)
    \/ resetDatabase
    \/ initializeSchema
    \/ saveConfig

ScanSpec == Init /\ [][ScanNext]_vars

\* The steps of a call that starts only when no other call is in flight.
SeqSaverStep(p, texts) ==
    \/ Quiescent /\ \E text \in texts : addLink(p, text)
    \/ UpserterStep(p)

SeqScanStep(vaults) ==
    \/ Quiescent /\ scanVaultForLinks
    \/ requestStoragePermissions
    \/ getAllMarkdownFiles(vaults)
    \/ readTextFile
    \/ clearWikiLinks
    \/ clearAllLinks
    \/ UpserterStep("scan")

SeqReaderStep(r) ==
    \/ Quiescent /\ loadLinks(r)
    \/ getAllWikiLinksRows(r)
    \/ getAllWikiLinksAliases(r)
    \/ loadLinksFill(r)

\* The writers of the corpus, one call at a time: the saves come from the one
\* review screen, each after the one before it has ended.
SeqNext ==
    \/ SeqSaverStep("save1", Texts)
    \/ SeqScanStep(Vaults)
    \/ Quiescent /\ resetDatabase
    \/ initializeSchema
    \/ saveConfig

SeqSpec == Init /\ [][SeqNext]_vars

\* The cache over the store as the clock advances: a save, a load and the
\* reset of the database, one call at a time.
CacheNext ==
    \/ SeqSaverStep("save1", FewTexts)
    \/ \E r \in Readers : SeqReaderStep(r)
    \/ Quiescent /\ resetDatabase
    \/ initializeSchema
    \/ Tick

CacheSpec == Init /\ [][CacheNext]_vars

\* ------------------------------------------------------ ConversationService

SESSION_TIMEOUT_MS == 30 * 60 * 1000

\* The clock of the conversations advances by half the session timeout, up
\* to MaxWaits times.
WaitMs == SESSION_TIMEOUT_MS \div 2
MsPerDay == 24 * TickMs

SessionTypes == {"midday", "evening"}

\* toDateString: the day the time falls on
toDateString(time) == time \div MsPerDay

\* uuidv4(): an id no earlier call returned
uuidv4 == uuid + 1

\* rowToSession: lastInteraction is built from start_time
rowToSession(row) ==
    [id |-> row.id, sessionType |-> row.session_type, date |-> row.date,
     startTime |-> row.start_time, lastInteraction |-> row.start_time,
     isActive |-> row.is_active]

\* SELECT * FROM sessions WHERE date = ? AND is_active = 1
\* ORDER BY start_time DESC LIMIT 1: every row the statement may return, the
\* order of rows of one start_time being the engine's
ActiveSessions(date) ==
    LET active == {row \in sessions : row.date = date /\ row.is_active}
    IN  {row \in active : \A other \in active : other.start_time <= row.start_time}

\* INSERT OR REPLACE INTO sessions: the row of insertSession
SessionRow(session) ==
    [id |-> session.id, session_type |-> session.sessionType, date |-> session.date,
     start_time |-> session.startTime, end_time |-> 0, is_active |-> session.isActive]

\* INSERT OR REPLACE on the primary key id
InsertOrReplace(table, row) == {x \in table : x.id /= row.id} \cup {row}

\* UPDATE sessions SET is_active = ?, end_time = ? WHERE id = ?
updateSessionActive(sessionId, isActive, endTime) ==
    {IF row.id = sessionId
     THEN [row EXCEPT !.is_active = isActive, !.end_time = endTime]
     ELSE row : row \in sessions}

\* isSessionTimedOut
isSessionTimedOut(session) == now - session.lastInteraction > SESSION_TIMEOUT_MS

\* The Session createSession builds before its await of insertSession.
NewSession(sessionType) ==
    [id |-> uuidv4, sessionType |-> sessionType, date |-> toDateString(now),
     startTime |-> now, lastInteraction |-> now, isActive |-> TRUE]

\* The Message addMessage builds before its await of insertMessage.
NewMessage(sessionId, role, content) ==
    [id |-> uuidv4, session_id |-> sessionId, role |-> role, content |-> content,
     timestamp |-> now, date |-> toDateString(now)]

\* SELECT * FROM messages WHERE session_id = ?
MessagesForSession(sessionId) == {msg \in messages : msg.session_id = sessionId}

\* SELECT * FROM messages WHERE session_id = ? ORDER BY timestamp ASC: every
\* order the statement may return the rows in
OrderedByTimestamp(rows) ==
    LET n == Cardinality(rows)
    IN  { s \in [1..n -> rows] :
            /\ \A i, j \in 1..n : i /= j => s[i] /= s[j]
            /\ \A i \in 1..n : \A j \in 1..n : i < j => s[i].timestamp <= s[j].timestamp }

\* The clock of the conversations.
Elapse ==
    /\ now < TickMs + MaxWaits * WaitMs
    /\ now' = now + WaitMs
    /\ UNCHANGED <<store, cache, cacheExpiry, config, wr, scan, rd, conv>>

\* ------------------------------------------------------------ ChatInterface

\* What the conversations leave alone.
linkVars == <<store, cache, cacheExpiry, config, wr, scan, rd>>

MiddayOpener ==
    <<"H", "o", "w", "'", "s", " ", "y", "o", "u", "r", " ", "d", "a", "y",
      " ", "g", "o", "i", "n", "g", "?">>

EveningOpener ==
    <<"R", "e", "a", "d", "y", " ", "t", "o", " ", "w", "r", "a", "p", " ",
      "u", "p", " ", "y", "o", "u", "r", " ", "d", "a", "y", "?", " ", "H",
      "o", "w", " ", "a", "r", "e", " ", "y", "o", "u", " ", "f", "e", "e",
      "l", "i", "n", "g", "?">>

\* The opening message of initSession
Opener(sessionType) == IF sessionType = "midday" THEN MiddayOpener ELSE EveningOpener

\* A ChatMessage of the list on the screen: the typing indicator, a user
\* message under its temporary id, or a message under the id it was saved with.
ChatMessage(kind, id, role, content) ==
    [kind |-> kind, id |-> id, role |-> role, content |-> content]

\* prev.filter(m => m.id !== TYPING_INDICATOR_ID)
WithoutTyping(list) == SelectSeq(list, LAMBDA m : m.kind /= "typing")

\* showTypingIndicator
showTypingIndicator(c) ==
    [c EXCEPT !.isTyping = TRUE,
              !.messages = Append(@, ChatMessage("typing", 0, "assistant", <<>>))]

\* A hideTypingIndicator that leaves the screen as it is.
leaveTypingIndicator(c) == c

\* hideTypingIndicator
hideTypingIndicator(c) ==
    [c EXCEPT !.isTyping = FALSE, !.messages = WithoutTyping(@)]

\* setMessages(prev => [...prev.filter(m => m.id !== TYPING_INDICATOR_ID), aiMsg])
ShowAIMessage(c, msg) ==
    [c EXCEPT !.messages =
        Append(WithoutTyping(@), ChatMessage("saved", msg.id, "assistant", msg.content))]

\* The catch of initSession: console.error, and the screen stays without a
\* session.
InitFailed(m) == gs' = [gs EXCEPT ![m] = [@ EXCEPT !.pc = "failed"]]

\* The chat screen is opened for a session type (openChat of App): initSession
\* without propSessionId, up to the await of getActiveSession. Each of the two
\* screens is opened once.
initSession(m, sessionType) ==
    /\ gs[m].pc = "idle"
    /\ gs' = [gs EXCEPT ![m] = [IdleGs EXCEPT !.pc = "getActiveSession",
                                             !.sessionType = sessionType,
                                             !.today = toDateString(now)]]
    /\ UNCHANGED <<now, linkVars, sessions, messages, uuid, chat>>

\* createSession, up to its await of insertSession
createSession(m) ==
    /\ uuid < MaxUuid
    /\ gs' = [gs EXCEPT ![m] = [@ EXCEPT !.pc = "insertSession",
                                        !.session = NewSession(gs[m].sessionType)]]
    /\ uuid' = uuidv4

\* getOrCreateSession after getActiveSession: the existing session is
\* returned to initSession, which sets the session id and awaits
\* getSessionMessages; or it is ended first; or a session is created.
getActiveSession(m) ==
    /\ gs[m].pc = "getActiveSession"
    /\ IF ~schema
       THEN InitFailed(m) /\ UNCHANGED <<uuid, chat>>
       ELSE IF ActiveSessions(gs[m].today) = {}
       THEN createSession(m) /\ UNCHANGED chat
       ELSE \E row \in ActiveSessions(gs[m].today) :
               LET existing == rowToSession(row)
               IN  IF ~isSessionTimedOut(existing)
                   THEN /\ gs' = [gs EXCEPT ![m] = [@ EXCEPT !.pc = "getSessionMessages",
                                                            !.existing = existing,
                                                            !.session = existing]]
                        /\ chat' = [chat EXCEPT ![m].sessionId = existing.id]
                        /\ UNCHANGED uuid
                   ELSE /\ gs' = [gs EXCEPT ![m] = [@ EXCEPT !.pc = "endSession",
                                                            !.existing = existing,
                                                            !.endTime = now]]
                        /\ UNCHANGED <<uuid, chat>>
    /\ UNCHANGED <<now, linkVars, sessions, messages>>

\* getOrCreateSession after endSession(existing.id): the UPDATE is done and
\* createSession is called
endSession(m) ==
    /\ gs[m].pc = "endSession"
    /\ IF ~schema
       THEN InitFailed(m) /\ UNCHANGED <<uuid, sessions>>
       ELSE /\ sessions' = updateSessionActive(gs[m].existing.id, FALSE, gs[m].endTime)
            /\ createSession(m)
    /\ UNCHANGED <<now, linkVars, messages, chat>>

\* createSession after insertSession: the session is returned to initSession,
\* which sets the session id and awaits getSessionMessages
insertSession(m) ==
    /\ gs[m].pc = "insertSession"
    /\ IF ~schema
       THEN InitFailed(m) /\ UNCHANGED <<sessions, chat>>
       ELSE /\ sessions' = InsertOrReplace(sessions, SessionRow(gs[m].session))
            /\ gs' = [gs EXCEPT ![m].pc = "getSessionMessages"]
            /\ chat' = [chat EXCEPT ![m].sessionId = gs[m].session.id]
    /\ UNCHANGED <<now, linkVars, messages, uuid>>

\* initSession after getSessionMessages: the messages are put on the screen,
\* and a session without any gets the opener through sendAIMessage, up to
\* the await of insertMessage
getSessionMessages(m) ==
    /\ gs[m].pc = "getSessionMessages"
    /\ IF ~schema
       THEN InitFailed(m) /\ UNCHANGED <<uuid, chat>>
       ELSE \E existing \in OrderedByTimestamp(MessagesForSession(gs[m].session.id)) :
               LET chatMessages ==
                       [i \in 1..Len(existing) |->
                           ChatMessage("saved", existing[i].id, existing[i].role,
                                       existing[i].content)]
                   shown == [chat[m] EXCEPT !.messages = chatMessages]
               IN  IF Len(existing) = 0
                   THEN /\ uuid < MaxUuid
                        /\ chat' = [chat EXCEPT ![m] = hideTypingIndicator(shown)]
                        /\ gs' = [gs EXCEPT ![m] = [@ EXCEPT
                                    !.pc = "insertMessage",
                                    !.msg = NewMessage(gs[m].session.id, "assistant",
                                                       Opener(gs[m].sessionType))]]
                        /\ uuid' = uuidv4
                   ELSE /\ chat' = [chat EXCEPT ![m] = shown]
                        /\ gs' = [gs EXCEPT ![m].pc = "done"]
                        /\ UNCHANGED uuid
    /\ UNCHANGED <<now, linkVars, sessions, messages>>

\* sendAIMessage of the opener after its insertMessage: the message is shown
\* and initSession ends
insertOpener(m) ==
    /\ gs[m].pc = "insertMessage"
    /\ IF ~schema
       THEN InitFailed(m) /\ UNCHANGED <<messages, chat>>
       ELSE /\ messages' = InsertOrReplace(messages, gs[m].msg)
            /\ chat' = [chat EXCEPT ![m] = ShowAIMessage(@, gs[m].msg)]
            /\ gs' = [gs EXCEPT ![m].pc = "done"]
    /\ UNCHANGED <<now, linkVars, sessions, uuid>>

\* ------------------------------------------------------------ GeminiService

MAX_RETRIES == 3

\* getFallbackResponse
getFallbackResponse ==
    <<"I", "'", "m", " ", "h", "a", "v", "i", "n", "g", " ", "t", "r", "o",
      "u", "b", "l", "e", " ", "c", "o", "n", "n", "e", "c", "t", "i", "n",
      "g", " ", "r", "i", "g", "h", "t", " ", "n", "o", "w", ".", " ", "Y",
      "o", "u", "r", " ", "m", "e", "s", "s", "a", "g", "e", " ", "h", "a",
      "s", " ", "b", "e", "e", "n", " ", "s", "a", "v", "e", "d", " ", "a",
      "n", "d", " ", "I", "'", "l", "l", " ", "r", "e", "s", "p", "o", "n",
      "d", " ", "w", "h", "e", "n", " ", "I", " ", "r", "e", "c", "o", "n",
      "n", "e", "c", "t", ".">>

\* What the API answers, and the errors its call is rejected with.
Reply == <<"O", "k">>
ApiErrors == {"network", "quota"}

\* Math.pow(2, attempt) * 1000
Backoff(attempt) == (2 ^ attempt) * 1000

\* withRetry after the last attempt was rejected: lastError = error, and
\* throw lastError
ThrowLast(c, error) == error

\* A withRetry that waits after every rejected attempt.
WaitsAgain(attempt) == TRUE

\* if (attempt < MAX_RETRIES - 1), the wait before the next attempt
WaitsBeforeNext(attempt) == attempt < MAX_RETRIES - 1

\* ------------------------------------------- ChatInterface.sendUserMessage

EndingPhrases ==
    {<<"t", "h", "a", "t", "'", "s", " ", "i", "t">>,
     <<"t", "h", "a", "t", "'", "s", " ", "a", "l", "l">>,
     <<"n", "o", "t", "h", "i", "n", "g", " ", "e", "l", "s", "e">>,
     <<"a", "l", "l", " ", "g", "o", "o", "d">>,
     <<"d", "o", "n", "e">>,
     <<"b", "y", "e">>}

\* isConversationEnding
isConversationEnding(text) ==
    \E phrase \in EndingPhrases : Includes(ToLowerCase(text), phrase)

\* What the user types.
Hi == <<"H", "i">>
Bye == <<" ", "B", "y", "e">>
ChatInputs == {Hi, Bye, <<" ">>}

\* sendUserMessage has ended: its locals are gone.
SendEnds(c, alert) ==
    [IdleChat EXCEPT !.sessionId = c.sessionId, !.messages = c.messages,
                     !.isTyping = c.isTyping, !.alert = alert]

\* The catch of sendUserMessage
SendFailed(m) ==
    chat' = [chat EXCEPT ![m] = SendEnds(hideTypingIndicator(@), "Error")]

\* sendAIMessage(content, sid), up to the await of insertMessage
sendAIMessage(c, content) ==
    [hideTypingIndicator(c) EXCEPT
        !.pc = "insertAI",
        !.msg = NewMessage(c.sessionId, "assistant", content)]

\* sendUserMessage, up to the await of insertMessage in addMessage: the
\* message is put on the screen under its temporary id, with the typing
\* indicator after it
sendUserMessage(m, inputText) ==
    LET text == Trim(inputText)
        c    == chat[m]
    IN  /\ c.pc = "idle"
        /\ text /= <<>>
        /\ c.sessionId /= 0
        /\ uuid < MaxUuid
        /\ chat' = [chat EXCEPT ![m] =
              [showTypingIndicator(
                  [c EXCEPT !.messages = Append(@, ChatMessage("temp", now, "user", text))])
               EXCEPT !.pc = "insertUser", !.text = text, !.tempId = now,
                      !.alert = "none",
                      !.msg = NewMessage(c.sessionId, "user", text)]]
        /\ uuid' = uuidv4
        /\ UNCHANGED <<now, linkVars, sessions, messages, gs>>

\* sendUserMessage after addMessage: the message on the screen takes the id
\* it was saved with, and getConversationContext is awaited
insertUserMessage(m) ==
    LET c == chat[m]
    IN  /\ c.pc = "insertUser"
        /\ IF ~schema
           THEN SendFailed(m) /\ UNCHANGED messages
           ELSE /\ messages' = InsertOrReplace(messages, c.msg)
                /\ chat' = [chat EXCEPT ![m] = [c EXCEPT
                      !.pc = "getContext",
                      !.messages = [i \in 1..Len(c.messages) |->
                          IF c.messages[i].kind = "temp" /\ c.messages[i].id = c.tempId
                          THEN [c.messages[i] EXCEPT !.kind = "saved", !.id = c.msg.id]
                          ELSE c.messages[i]]]]
        /\ UNCHANGED <<now, linkVars, sessions, uuid, gs>>

\* sendUserMessage after getConversationContext: geminiService.sendMessage,
\* whose withRetry makes the first call of the API
getConversationContext(m) ==
    /\ chat[m].pc = "getContext"
    /\ IF ~schema
       THEN SendFailed(m)
       ELSE chat' = [chat EXCEPT ![m] = [@ EXCEPT !.pc = "api", !.attempt = 0,
                                                !.calls = 1]]
    /\ UNCHANGED <<now, linkVars, sessions, messages, uuid, gs>>

\* The call of the API resolves: withRetry returns its result and
\* sendUserMessage passes it to sendAIMessage
apiResolves(m) ==
    /\ chat[m].pc = "api"
    /\ uuid < MaxUuid
    /\ chat' = [chat EXCEPT ![m] = sendAIMessage(@, Reply)]
    /\ uuid' = uuidv4
    /\ UNCHANGED <<now, linkVars, sessions, messages, gs>>

\* The call of the API is rejected: withRetry keeps the error and waits
\* before the next attempt, or, after the last one, throws it into the catch
\* of sendUserMessage, which passes the fallback response to sendAIMessage
apiRejects(m, error) ==
    LET c == chat[m]
    IN  /\ c.pc = "api"
        /\ IF WaitsBeforeNext(c.attempt)
           THEN /\ chat' = [chat EXCEPT ![m] = [c EXCEPT
                      !.pc = "backoff", !.lastError = error,
                      !.delays = Append(@, Backoff(c.attempt))]]
                /\ UNCHANGED uuid
           ELSE /\ uuid < MaxUuid
                /\ chat' = [chat EXCEPT ![m] =
                      sendAIMessage([c EXCEPT !.lastError = error,
                                              !.thrown = ThrowLast(c, error)],
                                    getFallbackResponse)]
                /\ uuid' = uuidv4
        /\ UNCHANGED <<now, linkVars, sessions, messages, gs>>

\* The timer of withRetry fires: the loop goes on to the next attempt, which
\* calls the API, or ends and throws the last error. The delays are seconds,
\* far below one step of the clock.
backoffElapsed(m) ==
    LET c == chat[m]
    IN  /\ c.pc = "backoff"
        /\ IF c.attempt + 1 < MAX_RETRIES
           THEN /\ chat' = [chat EXCEPT ![m] = [c EXCEPT !.pc = "api", !.attempt = @ + 1,
                                                         !.calls = @ + 1]]
                /\ UNCHANGED uuid
           ELSE /\ uuid < MaxUuid
                /\ chat' = [chat EXCEPT ![m] =
                      sendAIMessage([c EXCEPT !.attempt = @ + 1,
                                              !.thrown = ThrowLast(c, c.lastError)],
                                    getFallbackResponse)]
                /\ uuid' = uuidv4
        /\ UNCHANGED <<now, linkVars, sessions, messages, gs>>

\* sendAIMessage after addMessage: the message is shown; sendUserMessage then
\* ends, or calls handleSessionEnd on an ending phrase, up to the await of
\* updateSessionActive in endSession
insertAIMessage(m) ==
    LET c == chat[m]
    IN  /\ c.pc = "insertAI"
        /\ IF ~schema
           THEN SendFailed(m) /\ UNCHANGED messages
           ELSE /\ messages' = InsertOrReplace(messages, c.msg)
                /\ chat' = [chat EXCEPT ![m] =
                      IF isConversationEnding(c.text)
                      THEN [ShowAIMessage(c, c.msg) EXCEPT !.pc = "endSession",
                                                           !.endTime = now]
                      ELSE SendEnds(ShowAIMessage(c, c.msg), "none")]
        /\ UNCHANGED <<now, linkVars, sessions, uuid, gs>>

\* handleSessionEnd after endSession: the session is inactive, and the Alert
\* of the session type is shown
handleSessionEnd(m) ==
    LET c == chat[m]
    IN  /\ c.pc = "endSession"
        /\ IF ~schema
           THEN SendFailed(m) /\ UNCHANGED sessions
           ELSE /\ sessions' = updateSessionActive(c.sessionId, FALSE, c.endTime)
                /\ chat' = [chat EXCEPT ![m] =
                      SendEnds(c, IF gs[m].sessionType = "evening"
                                  THEN "Evening session complete!"
                                  ELSE "Midday check-in saved!")]
        /\ UNCHANGED <<now, linkVars, messages, uuid, gs>>

\* The steps of initSession.
InitStep(m) ==
    \/ \E sessionType \in SessionTypes : initSession(m, sessionType)
    \/ getActiveSession(m)
    \/ endSession(m)
    \/ insertSession(m)
    \/ getSessionMessages(m)
    \/ insertOpener(m)

\* The steps of sendUserMessage when the API answers.
SendStep(m, inputs) ==
    \/ \E inputText \in inputs : sendUserMessage(m, inputText)
    \/ insertUserMessage(m)
    \/ getConversationContext(m)
    \/ apiResolves(m)
    \/ insertAIMessage(m)
    \/ handleSessionEnd(m)

\* The steps of withRetry after a rejected call.
RetryStep(m) ==
    \/ \E error \in ApiErrors : apiRejects(m, error)
    \/ backoffElapsed(m)

\* The sessions of one day: the two chat screens are opened as the clock
\* advances, the user writes Hi in the first, which ends no session, and the
\* API answers.
SessionNext ==
    \/ \E m \in Mounts : InitStep(m)
    \/ sendUserMessage("chat1", Hi)
    \/ insertUserMessage("chat1")
    \/ getConversationContext("chat1")
    \/ apiResolves("chat1")
    \/ insertAIMessage("chat1")
    \/ Elapse

SessionSpec == Init /\ [][SessionNext]_vars

\* One chat screen, opened once, and an API that answers or fails. The
\* clock stands still, so no session times out and none is ended before
\* the user ends it.
ChatNext ==
    \/ \E sessionType \in SessionTypes : initSession("chat1", sessionType)
    \/ getActiveSession("chat1")
    \/ insertSession("chat1")
    \/ getSessionMessages("chat1")
    \/ insertOpener("chat1")
    \/ SendStep("chat1", ChatInputs)
    \/ RetryStep("chat1")

ChatSpec == Init /\ [][ChatNext]_vars

\* The scan over a corpus that saves wrote and a cache that loads filled,
\* one call at a time.
RescanNext ==
    \/ SeqSaverStep("save1", OneText)
    \/ \E r \in Readers : SeqReaderStep(r)
    \/ SeqScanStep(FewVaults)
    \/ saveConfig

RescanSpec == Init /\ [][RescanNext]_vars

\* The types given to addLink, two of WikiLinkType.
GivenTypes == {"person", "topic"}

\* addLink(text, type) with its type given, so that linkType is type and not
\* categorizeLink(text), up to the first await of upsertWikiLink
addLinkOfType(p, text, type) ==
    /\ p \in Savers
    /\ wr[p].pc = "idle"
    /\ SelectByText(text).frequency < MaxFreq
    /\ wr' = [wr EXCEPT ![p] = [IdleWr EXCEPT !.pc = "upsert_select",
                                              !.q = <<[NewLink(text, now) EXCEPT !.type = type]>>]]
    /\ UNCHANGED <<now, store, cache, cacheExpiry, config, scan, rd, conv>>

\* The callers of addLink, one call at a time, with and without a type.
UpsertNext ==
    \/ Quiescent /\ \E text \in CaseTexts : addLink("save1", text)
    \/ Quiescent /\ \E text \in CaseTexts : \E type \in GivenTypes :
                        addLinkOfType("save1", text, type)
    \/ UpserterStep("save1")

UpsertSpec == Init /\ [][UpsertNext]_vars

\* The steps of a findMatch after its loadLinks.
FindStep(r) ==
    \/ findMatchExact(r)
    \/ findWikiLinkByAlias(r)
    \/ findWikiLinkById(r)
    \/ findWikiLinkByText(r)
    \/ findMatchPartial(r)

LoadStep(r) ==
    \/ getAllWikiLinksRows(r)
    \/ getAllWikiLinksAliases(r)
    \/ loadLinksFill(r)

\* An alias of Na St in another casing.
ST == <<"S", "T">>
FindInputs == {ST, <<"s", "T">>}

\* A save and a reader's loadLinks or findMatch, interleaving at their awaits.
ReadNext ==
    \/ SaverStep("save1", OneText)
    \/ \E r \in Readers :
          \/ loadLinks(r)
          \/ \E text \in FindInputs : findMatch(r, text)
          \/ LoadStep(r)
          \/ FindStep(r)

ReadSpec == Init /\ [][ReadNext]_vars

\* Another name that begins with Na.
Nan == <<"N", "a", "n">>
MatchTexts == {NaSt, Na, Nan}

\* Six names with one prefix, one more than suggestLinks returns.
ManyTexts == << <<"N","a">>, <<"N","a","n">>, <<"N","a","t">>,
                <<"N","e","d">>, <<"N","e","l","l">>, <<"N","o","a">> >>

\* The row of the i-th entity of a corpus that bulkAddLinks wrote, an entity
\* being a text and the number of its mentions.
CorpusRow(corpus, i) ==
    [id |-> i, text |-> corpus[i].text, type |-> categorizeLink(corpus[i].text),
     frequency |-> corpus[i].frequency, first_seen |-> TickMs, last_used |-> TickMs]

\* The alias rows addLink wrote for the entities i, i + 1, ... of the corpus.
RECURSIVE CorpusAliases(_, _)
CorpusAliases(corpus, i) ==
    IF i > Len(corpus) THEN <<>>
    ELSE LET aliases == generateAliases(corpus[i].text)
         IN  [k \in 1..Len(aliases) |-> AliasRow(i, aliases[k])]
             \o CorpusAliases(corpus, i + 1)

\* The corpora of at most three distinct texts, every frequency.
SmallCorpora ==
    LET entries == [text : MatchTexts, frequency : 1..MaxFreq]
    IN  {<<>>}
        \cup {<<a>> : a \in entries}
        \cup {<<a, b>> : <<a, b>> \in {p \in entries \X entries : p[1].text /= p[2].text}}
        \cup {<<p[1], p[2], p[3]>> : p \in
                {q \in entries \X entries \X entries :
                    /\ q[1].text /= q[2].text
                    /\ q[1].text /= q[3].text
                    /\ q[2].text /= q[3].text}}

\* The six names, of frequencies 2, 1, 2, 1, ...
ManyCorpus ==
    [i \in 1..Len(ManyTexts) |->
        [text |-> ManyTexts[i], frequency |-> 1 + (i % MaxFreq)]]

\* Six names again, five of the largest frequency and Na St among them, whose
\* alias na is the key of the sixth, Na, mentioned once.
SharedKeyCorpus ==
    [i \in 1..Len(ManyTexts) |->
        IF i = 1 THEN [text |-> NaSt, frequency |-> MaxFreq]
        ELSE IF i = Len(ManyTexts) THEN [text |-> Na, frequency |-> 1]
        ELSE [text |-> ManyTexts[i], frequency |-> MaxFreq]]

MatchCorpora == SmallCorpora \cup {ManyCorpus, SharedKeyCorpus}

\* The application starts on the database file an earlier run left: the
\* corpus of a scan in the store, the service's cache empty.
Persisted(corpora) ==
    /\ now = TickMs
    /\ \E corpus \in corpora :
          /\ wiki_links = {CorpusRow(corpus, i) : i \in 1..Len(corpus)}
          /\ wiki_link_aliases = CorpusAliases(corpus, 1)
          /\ sqlite_sequence = Len(corpus)
    /\ schema = TRUE
    /\ cache = <<>>
    /\ cacheExpiry = 0
    /\ config = FALSE
    /\ wr = [p \in Upserters |-> IdleWr]
    /\ scan = IdleScan("idle", 0)
    /\ rd = [r \in Readers |-> IdleRd("none")]
    /\ NoConversations

MatchInputs == {Na, <<"n", "A">>, <<"a">>, <<"n">>, ST, <<"x">>}
SuggestInputs == {<<"n">>, <<"N", "a">>, <<"s">>, <<"a">>, <<>>}

\* Lookups of the service, one at a time, over a corpus that does not change.
\* The cache of such a lookup knows every alias of the store, so that the
\* alias SELECT of findWikiLinkByAlias, reached only for a key the cache does
\* not have, finds no row and findWikiLinkById is never reached.
MatchNext ==
    \E r \in Readers :
        \/ \E text \in MatchInputs : findMatch(r, text)
        \/ \E partial \in SuggestInputs : suggestLinks(r, partial)
        \/ LoadStep(r)
        \/ findMatchExact(r)
        \/ findWikiLinkByAlias(r)
        \/ findWikiLinkByText(r)
        \/ findMatchPartial(r)
        \/ suggestLinksCollect(r)

MatchSpec == Persisted(MatchCorpora) /\ [][MatchNext]_vars

\* The longest text of autoLinkText's inputs, in pieces.
MaxPieces == 3

\* A name with the word Na in its interior.
XNaY == <<"X", " ", "N", "a", " ", "Y">>
LinkTexts == {Na, NaSt, XNaY}

\* Corpora of the names, each mentioned once: a name alone, and Na beside a
\* name that contains it.
LinkCorpora ==
    LET entry(text) == [text |-> text, frequency |-> 1]
    IN  {<<entry(a)>> : a \in LinkTexts}
        \cup {<<entry(a), entry(Na)>> : a \in LinkTexts \ {Na}}

\* The pieces the inputs are made of: the words of the names in two casings,
\* and the brackets of the markup.
Pieces == {Na, na, <<" ", "S", "t">>, <<"X", " ">>, <<" ", "Y">>, <<"[", "[">>, <<"]", "]">>}

RECURSIVE PiecesUpTo(_)
PiecesUpTo(n) ==
    IF n = 0 THEN {<<>>}
    ELSE LET shorter == PiecesUpTo(n - 1)
         IN  shorter \cup {s \o p : s \in shorter, p \in Pieces}

\* The inputs of autoLinkText: up to MaxPieces pieces, bare or as a link.
LinkInputs == PiecesUpTo(MaxPieces) \cup {Wrap(s) : s \in PiecesUpTo(MaxPieces)}

\* The reader has made no call yet.
NoCallYet(r) == rd[r].op = "none"

\* The text autoLinkText returned for an input is linked again.
Relinked(r) ==
    /\ rd[r].op = "autoLinkText"
    /\ rd[r].arg \in LinkInputs
    /\ rd[r].res /= <<>>
    /\ autoLinkText(r, rd[r].res[1])

\* doSave on the entry autoLinkText returned to loadAndGenerate:
\* extractWikiLinks(entry)
extractWikiLinksCall(r) ==
    /\ rd[r].pc = "idle"
    /\ rd[r].op = "autoLinkText"
    /\ rd[r].arg \in LinkInputs
    /\ rd[r].res /= <<>>
    /\ rd' = [rd EXCEPT ![r] = Return(Call("extractWikiLinks", rd[r].res[1]),
                                       extractWikiLinks(rd[r].res[1]))]
    /\ UNCHANGED <<now, store, cache, cacheExpiry, config, wr, scan, conv>>

\* One text is linked over a corpus that does not change, by either
\* autoLinkText; the service's result is linked once more, or its mentions
\* are extracted.
LinkNext ==
    \E r \in Readers :
        \/ NoCallYet(r) /\ \E text \in LinkInputs : autoLinkText(r, text)
        \/ NoCallYet(r) /\ \E text \in LinkInputs : autoLinkTextWith(r, text)
        \/ Relinked(r)
        \/ extractWikiLinksCall(r)
        \/ LoadStep(r)
        \/ autoLinkTextReplace(r)

LinkSpec == Persisted(LinkCorpora) /\ [][LinkNext]_vars

\* The steps of a suggestLinks or an autoLinkText after its loadLinks.
CollectStep(r) ==
    \/ suggestLinksCollect(r)
    \/ autoLinkTextReplace(r)

\* A save, a reset of the database and the calls of a reader, interleaving at
\* their awaits: the reader's statements may find the tables dropped.
DownNext ==
    \/ SaverStep("save1", OneText)
    \/ resetDatabase
    \/ initializeSchema
    \/ \E r \in Readers :
          \/ loadLinks(r)
          \/ findMatch(r, ST)
          \/ suggestLinks(r, ST)
          \/ autoLinkText(r, NaSt)
          \/ LoadStep(r)
          \/ FindStep(r)
          \/ CollectStep(r)

DownSpec == Init /\ [][DownNext]_vars

\* The longest text that is categorized, in words.
MaxWords == 3

\* The words of the texts: names, terms of the vocabularies, a date, a word
\* in lower case, and the empty word of a doubled or outer space.
Words == {
    <<"J", "o", "h", "n">>,
    <<"S", "m", "i", "t", "h">>,
    <<"N", "a", "t", "e">>,
    <<"S", "t", "a", "p", "l", "e", "t", "o", "n">>,
    <<"L", "o", "r", "d">>,
    <<"H", "o", "l", "y">>,
    <<"G", "h", "o", "s", "t">>,
    <<"L", "a", "k", "e">>,
    <<"C", "l", "i", "m", "b", "i", "n", "g">>,
    <<"9", ".", "1", "4", ".", "2", "5">>,
    <<"n", "a">>,
    <<>> }

\* The texts of at most n words, joined by one space.
RECURSIVE Phrases(_)
Phrases(n) ==
    IF n = 1 THEN Words
    ELSE Phrases(n - 1) \cup {p \o <<" ">> \o w : p \in Phrases(n - 1), w \in Words}

\* wikiLinkService.categorizeLink(text), a synchronous call
categorizeLinkCall(r, text) ==
    /\ rd[r].pc = "idle"
    /\ rd' = [rd EXCEPT ![r] = Return(Call("categorizeLink", text), <<categorizeLink(text)>>)]
    /\ UNCHANGED <<now, store, cache, cacheExpiry, config, wr, scan, conv>>

\* wikiLinkService.generateAliases(text), a synchronous call
generateAliasesCall(r, text) ==
    /\ rd[r].pc = "idle"
    /\ rd' = [rd EXCEPT ![r] = Return(Call("generateAliases", text), generateAliases(text))]
    /\ UNCHANGED <<now, store, cache, cacheExpiry, config, wr, scan, conv>>

\* One text is categorized, or its aliases are generated.
TextNext ==
    \E r \in Readers :
        \/ NoCallYet(r) /\ \E text \in Phrases(MaxWords) : categorizeLinkCall(r, text)
        \/ NoCallYet(r) /\ \E text \in Phrases(MaxWords) : generateAliasesCall(r, text)

TextSpec == Init /\ [][TextNext]_vars

\* ------------------------------------------------------------------- claims

\* The mention texts of the files a scan reads: the trimmed, non-empty matches
\* of the files that are not skipped, in order.
RECURSIVE MentionsOf(_)
MentionsOf(files) ==
    IF files = <<>> THEN <<>>
    ELSE LET f == Head(files)
             ms == IF IsSkipped(f) THEN <<>> ELSE ExecAll(f)
             trimmed == [i \in 1..Len(ms) |-> Trim(ms[i])]
         IN  SelectSeq(trimmed, LAMBDA t : t /= <<>>) \o MentionsOf(Tail(files))

Occurrences(text, mentions) ==
    Cardinality({i \in 1..Len(mentions) : mentions[i] = text})

\* The step in which a scan that reached its commit returns.
ScanCommitReturns == scan.pc \in {"clear_done", "bulk"} /\ scan'.pc = "done"

C2_ListingFailureKeepsCorpus ==
    [][~scan.listed => UNCHANGED <<wiki_links, wiki_link_aliases>>]_vars

\* The step in which the UPDATE or the INSERT of p's upsertWikiLink is made.
UpsertWriteStep(p) == wr[p].pc = "upsert_write" /\ wr'[p].pc /= "upsert_write"

RowsWithText(rows, text) == {r \in rows : r.text = text}

\* No two rows of wiki_links have the same text.
UniqueText == \A r1, r2 \in wiki_links : r1.text = r2.text => r1 = r2

\* C3: no two rows ever have the same text; and an upsert whose SELECT is
\* still what the table holds (no other call came between, no reset of the
\* database is under way) leaves exactly
\* one row of its text and returns its id: a new row has the given frequency,
\* an existing one keeps its id and gains 1.
C3_UpsertMergesByText ==
    /\ []UniqueText
    /\ [][\A p \in Savers :
            (/\ UpsertWriteStep(p)
             /\ schema
             /\ wr[p].existing = SelectByText(Head(wr[p].q).text)) =>
            LET link == Head(wr[p].q)
                before == SelectByText(link.text)
                after == RowsWithText(wiki_links', link.text)
            IN  /\ Cardinality(after) = 1
                /\ \A r \in after :
                      /\ r.id = wr'[p].id
                      /\ before = NoRow => r.frequency = link.frequency
                      /\ before /= NoRow =>
                            r.id = before.id /\ r.frequency = before.frequency + 1]_vars

\* A second upsert of a text returned the id of its row, now of frequency 2.
C3_Witness ==
    \E p \in Savers :
        /\ wr[p].pc = "alias"
        /\ \E r \in wiki_links :
              r.text = Head(wr[p].q).text /\ r.id = wr[p].id /\ r.frequency = 2

\* C4: every upsert succeeds and counts, however the upserts interleave:
\* with the tables in place, its write raises no error and leaves one row of
\* its text, whose frequency, if the row was there, is one more than it was.
C4_UpsertAtomic ==
    [][\A p \in Savers :
         (UpsertWriteStep(p) /\ schema) =>
         LET link == Head(wr[p].q)
             before == SelectByText(link.text)
             after == RowsWithText(wiki_links', link.text)
         IN  /\ wr'[p].pc /= "idle"
             /\ Cardinality(after) = 1
             /\ before /= NoRow => \A r \in after : r.frequency = before.frequency + 1]_vars

\* C5: the frequency of a row that a step keeps (same id) does not decrease,
\* and changes only in the write of an upsert of the row's own text.
C5_FrequencyOnlyGrowsByUpsert ==
    [][\A r1 \in wiki_links : \A r2 \in wiki_links' :
         r1.id = r2.id =>
         /\ r2.frequency >= r1.frequency
         /\ r2.frequency /= r1.frequency =>
               \E p \in Upserters : UpsertWriteStep(p) /\ Head(wr[p].q).text = r1.text]_vars

\* The alias values stored for the entity of an id.
AliasValuesOf(linkId) ==
    {wiki_link_aliases[i].alias :
        i \in {j \in 1..Len(wiki_link_aliases) : wiki_link_aliases[j].link_id = linkId}}

\* C6 as stated: an alias value is stored for one entity only.
C6_AliasValueHasOneEntity ==
    \A i, j \in 1..Len(wiki_link_aliases) :
        wiki_link_aliases[i].alias = wiki_link_aliases[j].alias =>
        wiki_link_aliases[i].link_id = wiki_link_aliases[j].link_id

\* C6 amended: after calls made one at a time, every alias row belongs to
\* exactly one entity, its link_id's, and holds a lowercased alias derived from
\* that entity's text; one value may so be stored for several entities.
C6_AliasRowHasOneEntity ==
    /\ \A i \in 1..Len(wiki_link_aliases) :
          Cardinality({r \in wiki_links : r.id = wiki_link_aliases[i].link_id}) = 1
    /\ \A r \in wiki_links :
          AliasValuesOf(r.id) \subseteq
              {ToLowerCase(a) : a \in Range(generateAliases(r.text))}

\* The alias na is stored for two entities, each of which derives it.
C6_Witness ==
    \E r1, r2 \in wiki_links :
        /\ r1.id /= r2.id
        /\ na \in AliasValuesOf(r1.id) \cap AliasValuesOf(r2.id)

\* C7: inserting an alias is idempotent: no two alias rows have the same
\* link_id and alias, so no entity's alias list has a duplicate.
C7_NoDuplicateAliasRows ==
    \A i, j \in 1..Len(wiki_link_aliases) :
        wiki_link_aliases[i] = wiki_link_aliases[j] => i = j

\* Every alias row references a row of wiki_links.
AliasesReferenceLinks ==
    \A i \in 1..Len(wiki_link_aliases) :
        \E r \in wiki_links : r.id = wiki_link_aliases[i].link_id

StoreIsEmpty == wiki_links = {} /\ wiki_link_aliases = <<>> /\ getWikiLinkCount = 0

\* C8: every alias row references an existing entity in every state, also
\* when a clear runs between the statements of an addLink or a bulk add; the
\* clear's DELETEs leave no entity and no alias and a count of 0, and until
\* clearAllLinks returns only a statement of another writer changes that.
C8_AliasesReferenceEntities ==
    /\ []AliasesReferenceLinks
    /\ [][/\ (scan.pc = "clear" /\ scan'.pc = "clear_done") => StoreIsEmpty'
          /\ (scan.pc = "clear_done" /\ wr'["save1"] = wr["save1"]) =>
                (StoreIsEmpty => StoreIsEmpty')]_vars

\* The clear has deleted the entity that an addLink in flight upserted and is
\* about to insert an alias for.
C8_Witness ==
    /\ scan.pc = "clear_done"
    /\ wr["save1"].pc = "alias"
    /\ wr["save1"].id > 0
    /\ StoreIsEmpty

\* The keys of a cache, and the keys the store's entities are to be found by.
CacheKeys(c) == {c[i].key : i \in 1..Len(c)}

StoreKeys ==
    {ToLowerCase(r.text) : r \in wiki_links}
        \cup {wiki_link_aliases[i].alias : i \in 1..Len(wiki_link_aliases)}

\* The cache c holds the store's entities: one entry per lowercased text and
\* per alias, each with an entity of the store that has that text or alias.
CacheHoldsStore(c) ==
    /\ CacheKeys(c) = StoreKeys
    /\ \A i, j \in 1..Len(c) : c[i].key = c[j].key => i = j
    /\ \A i \in 1..Len(c) :
          \E r \in wiki_links :
              /\ c[i].link.id = r.id
              /\ c[i].link.text = r.text
              /\ c[i].link.frequency = r.frequency
              /\ c[i].link.aliases = AliasesOf(r.id)
              /\ \/ c[i].key = ToLowerCase(r.text)
                 \/ c[i].key \in AliasValuesOf(r.id)

\* C9: a call of loadLinks does nothing (no read of the store, cache and
\* expiry as they were) exactly when the cache is non-empty and the clock is
\* before the expiry; any other call reads the store, and then replaces the
\* cache by the store's entities and sets the expiry to one hour from now.
C9_LoadLinksFreshOrReload ==
    [][\A r \in Readers :
         /\ (rd[r].pc = "idle" /\ rd'[r] /= rd[r]) =>
               IF Len(cache) > 0 /\ now < cacheExpiry
               THEN /\ rd'[r].pc = "idle" /\ rd'[r].out = "noop"
                    /\ UNCHANGED <<cache, cacheExpiry, store>>
               ELSE rd'[r].pc = "select_links"
         /\ (rd[r].pc = "fill" /\ rd'[r].pc = "idle") =>
               /\ rd'[r].out = "reload"
               /\ CacheHoldsStore(cache')
               /\ cacheExpiry' = now + CACHE_TTL_MS]_vars

\* A load found a cache of two entities fresh and did nothing.
C9_Witness ==
    /\ rd["reader"].pc = "idle"
    /\ rd["reader"].out = "noop"
    /\ Cardinality(wiki_links) = 2
    /\ CacheHoldsStore(cache)
    /\ now < cacheExpiry

\* The step in which a write of the corpus completes: an addLink or a bulk
\* add returns, clearAllLinks returns, or resetDatabase returns.
WriteCompletes ==
    \/ \E p \in Upserters : wr[p].pc = "invalidate" /\ wr'[p].pc = "idle"
    \/ scan.pc = "clear_done" /\ scan'.pc /= "clear_done"
    \/ ~schema /\ schema'

\* C10: when a write of the corpus completes, the expiry of the cache is in
\* the past.
C10_WriteInvalidatesCache ==
    [][WriteCompletes => cacheExpiry' < now']_vars

\* The most alias rows an entity of that text and frequency has in a state of
\* the store: every upsert that counted was followed by the aliases of one call.
AliasRowsAtMost(text, frequency) == Len(generateAliases(text)) * frequency

\* C11: the map a loadLinks installs is built from one state of the store,
\* whichever writes interleave with the load: like every state of the store,
\* it holds no entity with more aliases than its frequency accounts for.
C11_CacheIsOneStoreState ==
    \A i \in 1..Len(cache) :
        Len(cache[i].link.aliases) <=
            AliasRowsAtMost(cache[i].link.text, cache[i].link.frequency)

\* The property of the store's states that C11 relies on.
StoreAliasRowsAtMost ==
    \A row \in wiki_links :
        Len(AliasesOf(row.id)) <= AliasRowsAtMost(row.text, row.frequency)

\* s is an alias of the entity row and of no other, and no entity has s as
\* its text in any casing.
OnlyAliasOf(s, row) ==
    /\ s \in AliasValuesOf(row.id)
    /\ \A other \in wiki_links :
          /\ other.id /= row.id => s \notin AliasValuesOf(other.id)
          /\ ToLowerCase(other.text) /= s

\* The call t returned the entity of the row.
Found(t, row) ==
    /\ t.pc = "idle"
    /\ t.res /= <<>>
    /\ t.res[1].id = row.id
    /\ t.res[1].text = row.text

\* C13: while the lowercased input is an alias of exactly one entity and no
\* entity's text, a findMatch of it returns that entity: from the cache when
\* the cache holds the store, and from the store's alias table when the cache
\* does not know the key.
C13_FindMatchByAlias ==
    [][\A r \in Readers : \A row \in wiki_links :
         (/\ rd'[r] /= rd[r]
          /\ rd[r].op = "findMatch"
          /\ OnlyAliasOf(ToLowerCase(rd[r].arg), row)) =>
         /\ (rd[r].pc = "findMatch" /\ CacheHoldsStore(cache)) => Found(rd'[r], row)
         /\ rd[r].pc = "alias_select" =>
               rd'[r].pc = "link_select" /\ rd'[r].i = row.id
         /\ (rd[r].pc = "link_select" /\ rd[r].i = row.id) => Found(rd'[r], row)]_vars

\* findMatch of ST returned Na St from the store (the link has no alias
\* list), the cache of that call not knowing the key.
C13_Witness ==
    \E r \in Readers : \E row \in wiki_links :
        /\ row.text = NaSt
        /\ rd[r].op = "findMatch"
        /\ rd[r].arg = ST
        /\ Found(rd[r], row)
        /\ rd[r].res[1].aliases = <<>>

\* A findMatch that has returned.
FindMatchReturned(t) == t.pc = "idle" /\ t.op = "findMatch"

\* C12: when the lowercased input is the lowercased text of an entity of the
\* corpus, findMatch returns that entity, whatever aliases and partial
\* matches the other entities offer.
C12_ExactMatchWins ==
    \A r \in Readers : \A row \in wiki_links :
        (/\ FindMatchReturned(rd[r])
         /\ ToLowerCase(row.text) = ToLowerCase(rd[r].arg)) => Found(rd[r], row)

\* The entries of the cache that match the input partially.
PartialCandidates(lower) ==
    {i \in 1..Len(cache) : Includes(cache[i].key, lower) \/ Includes(lower, cache[i].key)}

\* No candidate has a higher frequency than entry i, and none of its
\* frequency a longer key.
BestCandidate(lower, i) ==
    \A j \in PartialCandidates(lower) :
        \/ cache[j].link.frequency < cache[i].link.frequency
        \/ /\ cache[j].link.frequency = cache[i].link.frequency
           /\ Len(cache[j].key) <= Len(cache[i].key)

\* C14: a findMatch that falls through to the partial match returns the
\* candidate of the highest frequency, and among the candidates of that
\* frequency one matched through the longest key, whatever the order in which
\* the entities were entered.
C14_PartialMatchIsBest ==
    \A r \in Readers :
        LET lower == ToLowerCase(rd[r].arg)
        IN  (/\ FindMatchReturned(rd[r])
             /\ ~CacheHas(cache, lower)
             /\ PartialCandidates(lower) /= {}) =>
            \E i \in PartialCandidates(lower) :
                /\ BestCandidate(lower, i)
                /\ rd[r].res = <<cache[i].link>>

\* A suggestLinks that has returned.
SuggestReturned(t) == t.pc = "idle" /\ t.op = "suggestLinks"

\* The cache offers the link for the input: under a key that starts with it,
\* or with a text that contains it.
Offered(link, lower) ==
    \E i \in 1..Len(cache) :
        /\ cache[i].link = link
        /\ StartsWith(cache[i].key, lower) \/ Includes(ToLowerCase(link.text), lower)

\* C15: suggestLinks returns at most five entities, no two of one text, in
\* the order of non-increasing frequency, each of them offered by the cache
\* for the lowercased input.
C15_SuggestLinksResult ==
    \A r \in Readers :
        SuggestReturned(rd[r]) =>
            LET res == rd[r].res
            IN  /\ Len(res) <= MaxSuggestions
                /\ \A i, j \in 1..Len(res) : i /= j => res[i].text /= res[j].text
                /\ \A i, j \in 1..Len(res) : i < j => res[i].frequency >= res[j].frequency
                /\ \A i \in 1..Len(res) : Offered(res[i], ToLowerCase(rd[r].arg))

\* Six entities match the input and five are returned, of more than one
\* frequency.
C15_Witness ==
    \E r \in Readers :
        /\ SuggestReturned(rd[r])
        /\ Cardinality({row \in wiki_links :
                           Includes(ToLowerCase(row.text), ToLowerCase(rd[r].arg))}) > MaxSuggestions
        /\ Len(rd[r].res) = MaxSuggestions
        /\ rd[r].res[1].frequency > rd[r].res[MaxSuggestions].frequency

\* A call of the service's autoLinkText that has returned.
AutoLinkReturned(t) == t.pc = "idle" /\ t.op = "autoLinkText" /\ t.res /= <<>>

\* C16: for two entities of the corpus, the text of the one contained in the
\* text of the other, autoLinkText of a mention of the longer one, in any
\* casing, gives exactly that entity's link, with no link of the shorter one
\* inside it.
C16_LongestEntityWins ==
    \A r \in Readers : \A A, B \in wiki_links :
        (/\ AutoLinkReturned(rd[r])
         /\ A.text /= B.text
         /\ Includes(A.text, B.text)
         /\ ToLowerCase(rd[r].arg) = ToLowerCase(A.text)) =>
        rd[r].res[1] = Wrap(A.text)

BracketFree(s) == \A i \in 1..Len(s) : s[i] \notin {"[", "]"}

\* A [[ that follows another [[ with no ]] between the two.
NestedMarkup(s) ==
    \E i, j \in 1..Len(s) :
        /\ i + 2 <= j
        /\ OccursAt(s, <<"[", "[">>, i)
        /\ OccursAt(s, <<"[", "[">>, j)
        /\ \A k \in (i + 2)..(j - 2) : ~OccursAt(s, <<"]", "]">>, k)

\* C18: the result of autoLinkText has no markup inside markup, for an input
\* without brackets, where every link is made in the pass, and for an input
\* that is one link.
C18_NoNestedMarkup ==
    \A r \in Readers :
        (/\ AutoLinkReturned(rd[r])
         /\ \/ BracketFree(rd[r].arg)
            \/ \E s \in PiecesUpTo(MaxPieces) : BracketFree(s) /\ rd[r].arg = Wrap(s)) =>
        ~NestedMarkup(rd[r].res[1])

\* The links getAllWikiLinks returns, in every order its query allows.
AllWikiLinks ==
    {[i \in 1..Len(rows) |-> RowToLink(rows[i])] : rows \in OrderedByFrequency(wiki_links)}

\* A word-bounded mention of the text, in any casing, outside of markup.
Mentioned(s, text) == \E i \in 1..Len(s) : MatchesAt(s, text, i, TRUE)

\* C19: both autoLinkText, the service's over its cache and the function of
\* database/queries.ts over the list of the same entities, return the same
\* text, and it has no word-bounded mention of an entity's text, in any
\* casing, left outside of markup.
C19_BothAutoLinkReplaceAll ==
    \A r \in Readers :
        AutoLinkReturned(rd[r]) =>
            \A wikiLinks \in AllWikiLinks :
                /\ QueriesAutoLink(rd[r].arg, wikiLinks) = rd[r].res[1]
                /\ \A row \in wiki_links :
                      /\ ~Mentioned(rd[r].res[1], row.text)
                      /\ ~Mentioned(QueriesAutoLink(rd[r].arg, wikiLinks), row.text)

\* C20: autoLinkText leaves a text unchanged that contains the text of no
\* entity, in any casing, whatever aliases it contains.
C20_AliasesAreNotLinked ==
    \A r \in Readers :
        (/\ AutoLinkReturned(rd[r])
         /\ \A row \in wiki_links :
               ~Includes(ToLowerCase(rd[r].arg), ToLowerCase(row.text))) =>
        rd[r].res[1] = rd[r].arg

\* A text with a word that is an alias of an entity, and the text of none,
\* came back unchanged.
C20_Witness ==
    \E r \in Readers :
        /\ AutoLinkReturned(rd[r])
        /\ \A row \in wiki_links :
              ~Includes(ToLowerCase(rd[r].arg), ToLowerCase(row.text))
        /\ \E k \in 1..Len(wiki_link_aliases) :
              Mentioned(rd[r].arg, wiki_link_aliases[k].alias)
        /\ rd[r].res[1] = rd[r].arg

\* The linksMap holds one link per distinct mention, with its occurrences.
LinksMapHolds(m, mentions) ==
    /\ {m[k].text : k \in 1..Len(m)} = Range(mentions)
    /\ \A k \in 1..Len(m) : m[k].frequency = Occurrences(m[k].text, mentions)

\* C21: a scan skips a file it cannot read and does not stop: the turn of the
\* loop leaves the linksMap as it was and goes on to the next file, or to the
\* commit after the last; the loop ends with the mentions of the readable
\* files, and the commit of such a scan leaves exactly those in the corpus.
C21_UnreadableFileIsSkipped ==
    [][/\ (scan.pc = "read" /\ scan' /= scan /\ scan.files[scan.i] = Unreadable) =>
            /\ scan'.pc = IF scan.i < Len(scan.files) THEN "read" ELSE "clear"
            /\ scan'.i = scan.i + 1
            /\ scan'.files = scan.files
            /\ scan'.linksMap = scan.linksMap
       /\ (scan.pc = "read" /\ scan'.pc = "clear") =>
            LinksMapHolds(scan'.linksMap, MentionsOf(scan.files))
       /\ (ScanCommitReturns /\ Unreadable \in Range(scan.files)) =>
            /\ {r.text : r \in wiki_links'} = Range(MentionsOf(scan.files))
            /\ scan'.ret = Cardinality(Range(MentionsOf(scan.files)))]_vars

\* A scan whose first file could not be read is writing the mentions of its
\* second file.
C21_Witness ==
    /\ scan.pc = "bulk"
    /\ scan.files[1] = Unreadable
    /\ \E r \in wiki_links : r.text = NaSt

\* C22: a scan calls onProgress once for every file, readable or not, before
\* it reads the file: the turn of the loop for the i-th of the files sets the
\* progress to i of their number, every turn does, and no other step of the
\* scan changes the progress, which starts at 0 of 0.
C22_ProgressOncePerFile ==
    [][/\ (scan.pc = "read" /\ scan' /= scan) =>
            /\ scan.progress.current = scan.i - 1
            /\ scan'.progress = [current |-> scan.i, total |-> Len(scan.files)]
       /\ (scan.pc /= "read" /\ scan'.pc \notin {"permission", "done"} /\ scan.pc /= "done") =>
            scan'.progress = scan.progress
       /\ (scan'.pc = "done" /\ scan.pc \notin {"idle", "done"}) =>
            scan'.progress = scan.progress
       /\ scan'.pc = "read" => scan'.progress.current = scan'.i - 1]_vars

\* The progress is 2 of 2 after the second file, the first of which could not
\* be read.
C22_Witness ==
    /\ scan.pc = "clear"
    /\ Len(scan.files) = 2
    /\ scan.files[1] = Unreadable
    /\ scan.progress = [current |-> 2, total |-> 2]

\* The reader's call waits for a statement on the database.
AtStatement(t) ==
    t.pc \in {"select_links", "select_aliases", "alias_select", "link_select", "text_select"}

\* C23: a statement of findMatch, suggestLinks, autoLinkText or loadLinks that
\* finds the store unavailable does not make the call raise: the call returns,
\* findMatch with no link, suggestLinks with an empty list, autoLinkText with
\* its text as it was given, which the entry-generation flow then presents.
C23_StoreFailureDoesNotRaise ==
    [][\A r \in Readers :
         (rd'[r] /= rd[r] /\ AtStatement(rd[r]) /\ ~schema) =>
            /\ rd'[r].pc = "idle"
            /\ rd'[r].out /= "error"
            /\ rd'[r].res = IF rd[r].op = "autoLinkText" THEN <<rd[r].arg>> ELSE <<>>]_vars

\* The step in which the save flow of p ends.
SaveEnds(p) == wr[p].pc /= "idle" /\ wr'[p].pc = "idle"

\* C24: the save flow, once it has written the entry, ends by telling the
\* user the entry was saved, whatever becomes of its addLink.
C24_SaveSurvivesAddLinkFailure ==
    [][\A p \in Savers : SaveEnds(p) => wr'[p].alert = "Saved!"]_vars

\* The rows of the alias table that belong to the entity.
AliasRowsOf(rows, linkId) == SelectSeq(rows, LAMBDA a : a.link_id = linkId)

\* The row is the entity that the running save of p inserted itself: the one
\* whose aliases it is writing, still of frequency 1.
InsertedBy(p, row) == wr[p].pc = "alias" /\ wr[p].id = row.id /\ row.frequency = 1

\* C25: the addLink of a save adds entities and changes none that was there
\* before: an entity of the corpus that the save did not insert itself is in
\* the corpus after every step of the save with the same frequency, lastUsed
\* and alias rows.
C25_SaveAddsOnlyNewMentions ==
    [][\A p \in Savers :
         (wr'[p] /= wr[p] /\ schema) =>
            \A row \in wiki_links :
                ~InsertedBy(p, row) =>
                    /\ row \in wiki_links'
                    /\ AliasRowsOf(wiki_link_aliases', row.id) =
                           AliasRowsOf(wiki_link_aliases, row.id)]_vars

\* The step of clearWikiLinks, the DELETEs of clearAllLinks.
ClearStep == scan.pc = "clear" /\ scan'.pc = "clear_done"

\* C26: an entity leaves the corpus only in the step of clearAllLinks: every
\* other step keeps every entity of the corpus, by id and text.
C26_OnlyClearRemovesEntities ==
    [][ClearStep \/
       \A row \in wiki_links :
           \E kept \in wiki_links' : kept.id = row.id /\ kept.text = row.text]_vars

John == <<"J", "o", "h", "n">>
Smith == <<"S", "m", "i", "t", "h">>
Lake == <<"L", "a", "k", "e">>
Climbing == <<"C", "l", "i", "m", "b", "i", "n", "g">>
Sp == <<" ">>

\* A categorizeLink that has returned.
Categorized(t) == t.pc = "idle" /\ t.op = "categorizeLink" /\ t.res /= <<>>

C28_CommonNounIsTopic ==
    \A r \in Readers :
        (Categorized(rd[r]) /\ rd[r].arg = Climbing) => rd[r].res = <<"topic">>

\* A generateAliases that has returned.
AliasesGenerated(t) == t.pc = "idle" /\ t.op = "generateAliases"

\* C29: the aliases generateAliases returns contain the lowercased text and
\* no alias twice; for a text with no space they are the lowercased text
\* alone, and for a text of exactly two parts around one space they are the
\* lowercased text and the two lowercased parts.
C29_AliasesOfOneOrTwoTokens ==
    \A r \in Readers :
        AliasesGenerated(rd[r]) =>
            LET text == rd[r].arg
                aliases == rd[r].res
                parts == Split(text)
            IN  /\ ToLowerCase(text) \in Range(aliases)
                /\ \A i, j \in 1..Len(aliases) : i /= j => aliases[i] /= aliases[j]
                /\ Len(parts) = 1 => aliases = <<ToLowerCase(text)>>
                /\ Len(parts) = 2 =>
                      Range(aliases) = {ToLowerCase(text), ToLowerCase(parts[1]),
                                        ToLowerCase(parts[2])}

\* The aliases of "na na" are "na na" and "na", once.
C29_Witness ==
    \E r \in Readers :
        /\ AliasesGenerated(rd[r])
        /\ rd[r].arg = na \o Sp \o na
        /\ rd[r].res = <<na \o Sp \o na, na>>

\* The parts of the text around its spaces, none of them empty.
Tokens(text) ==
    IF \A i \in 1..Len(Split(text)) : Split(text)[i] /= <<>> THEN Split(text) ELSE <<>>

\* C30: the aliases of a text of more than two tokens are the lowercased text
\* alone, with no alias for a token.
C30_LongTextsHaveOneAlias ==
    \A r \in Readers :
        (AliasesGenerated(rd[r]) /\ Len(Tokens(rd[r].arg)) > 2) =>
            rd[r].res = <<ToLowerCase(rd[r].arg)>>

\* ------------------------------------------------------------------ C31

\* extractWikiLinks has returned to doSave.
Extracted(t) == t.pc = "idle" /\ t.op = "extractWikiLinks"

\* The texts between [[ and ]] in s: the bracket-free texts s holds as links.
MentionsIn(s) ==
    {Slice(s, i + 2, j - 1) : i \in 1..Len(s), j \in 1..Len(s)} \cap
    {m \in {Slice(s, i + 2, j - 1) : i \in 1..Len(s), j \in 1..Len(s)} :
        m /= <<>> /\ BracketFree(m) /\ Includes(s, Wrap(m))}

\* The entry is what autoLinkText made of a generated text without markup.
LinkedFromPlain(entry) ==
    \E text \in PiecesUpTo(MaxPieces) :
        BracketFree(text) /\ ServiceAutoLink(text, cache) = entry

\* C31: extractWikiLinks returns the texts that occur between [[ and ]] in the
\* entry, each once and no other, so that every entity autoLinkText wrapped in
\* an entry that had no markup before is among the extracted mentions.
C31_ExtractReturnsTheMentions ==
    \A r \in Readers :
        Extracted(rd[r]) =>
            LET found == rd[r].res
            IN  \/ /\ \A i, j \in 1..Len(found) : found[i] = found[j] => i = j
                   /\ {found[i] : i \in 1..Len(found)} = MentionsIn(rd[r].arg)
                   /\ \A row \in wiki_links :
                         Includes(rd[r].arg, Wrap(row.text)) =>
                             \E i \in 1..Len(found) : found[i] = row.text
                \/ ~LinkedFromPlain(rd[r].arg)

\* ------------------------------------------------------------------ C36

\* The entities of the store whose text holds the input.
MatchingRows(lower) == {row \in wiki_links : Includes(ToLowerCase(row.text), lower)}

\* C36: when more than five entities match the input, no matching entity that
\* suggestLinks left out has a larger frequency than one it returned.
C36_SuggestLinksReturnsTheMostFrequent ==
    \A r \in Readers :
        LET lower == ToLowerCase(rd[r].arg)
            res   == rd[r].res
        IN  (SuggestReturned(rd[r]) /\ Cardinality(MatchingRows(lower)) > MaxSuggestions) =>
                \A row \in MatchingRows(lower) :
                    (\A i \in 1..Len(res) : res[i].text /= row.text) =>
                        \A i \in 1..Len(res) : res[i].frequency >= row.frequency

\* ------------------------------------------------------------------ C35

\* The cache is the map a loadLinks run now, alone, would build.
CacheIsFreshLoad == \E links \in AllWikiLinks : cache = BuildCache(<<>>, links)

\* C35: whenever no call of the service is in flight and the cache is
\* non-empty and not expired, the cache is the map a load from the store as
\* it is now would build.
C35_CacheCoherentAtQuiescence ==
    (Quiescent /\ Len(cache) > 0 /\ now < cacheExpiry) => CacheIsFreshLoad

\* ------------------------------------------------------------------ C34

\* The UPDATE of an upsertWikiLink whose text the store holds.
UpsertOfExisting(p) == UpsertWriteStep(p) /\ schema /\ wr[p].existing /= NoRow

\* C34: the upsert of a text the store holds adds one to that entity's
\* frequency and sets its lastUsed: its id, text, type and firstSeen stay,
\* and so does every other row.
C34_UpsertOfExistingChangesFrequencyAndLastUsed ==
    [][\A p \in Savers :
         UpsertOfExisting(p) =>
            \E row \in wiki_links :
                /\ row.text = Head(wr[p].q).text
                /\ \E lastUsed \in {now, row.last_used} :
                      wiki_links' = (wiki_links \ {row}) \cup
                          {[row EXCEPT !.frequency = row.frequency + 1,
                                       !.last_used = lastUsed]}]_vars

\* ------------------------------------------------------------------ C37

\* The scan has neither called onProgress nor read a file.
NothingScanned(s) == s.progress = NoProgress /\ s.files = <<>> /\ s.i = 0

\* C37: a scanVaultForLinks called with no vault configured, or refused the
\* storage permission, returns 0 at once: it calls onProgress for no file,
\* reads none, and leaves the store, the cache and its expiry as they are.
C37_ScanWithoutVaultOrPermissionHasNoEffect ==
    [][/\ (scan.pc \in {"idle", "done"} /\ scan' /= scan) =>
             /\ UNCHANGED <<store, cache, cacheExpiry>>
             /\ NothingScanned(scan')
             /\ ~config => scan'.pc = "done" /\ scan'.ret = 0
       /\ (scan.pc = "permission" /\ scan' /= scan) =>
             /\ UNCHANGED <<store, cache, cacheExpiry>>
             /\ NothingScanned(scan')
             /\ scan'.pc \in {"done", "enumerate"}
             /\ scan'.pc = "done" => scan'.ret = 0]_vars

\* A scan has returned 0 with no vault configured, over a store that holds an
\* entity and a cache that is filled and not expired.
C37_Witness ==
    /\ ~config
    /\ scan.pc = "done"
    /\ scan.ret = 0
    /\ wiki_links /= {}
    /\ Len(cache) > 0
    /\ now < cacheExpiry

\* ------------------------------------------------------------------ C33

\* The time of the last interaction in a session: that of its latest
\* message, or its start when it has none.
LastInteraction(session) ==
    LET stamps == {msg.timestamp : msg \in MessagesForSession(session.id)}
                      \cup {session.startTime}
    IN  CHOOSE t \in stamps : \A u \in stamps : u <= t

\* getOrCreateSession continues after getActiveSession gave it a session.
FoundActive(m) ==
    /\ gs[m].pc = "getActiveSession"
    /\ gs'[m].pc /= "getActiveSession"
    /\ schema
    /\ ActiveSessions(gs[m].today) /= {}

\* C33: getOrCreateSession returns today's active session whenever the last
\* interaction in it is at most 30 minutes old, however long ago it started,
\* and ends it to create a new one only when more than 30 minutes have passed
\* since that interaction.
C33_SessionEndsAfterInactivity ==
    [][\A m \in Mounts :
         FoundActive(m) =>
            LET existing == gs'[m].existing
            IN  IF now - LastInteraction(existing) <= SESSION_TIMEOUT_MS
                THEN gs'[m].pc = "getSessionMessages" /\ gs'[m].session.id = existing.id
                ELSE gs'[m].pc = "endSession"]_vars

\* The sessions of a date that the store marks active.
ActiveOn(date) == {row \in sessions : row.date = date /\ row.is_active}

\* C38: after any sequence of getOrCreateSession calls on one date, also
\* calls whose awaits interleave, at most one session of that date is marked
\* active in the store.
C38_AtMostOneActiveSessionPerDate ==
    \A row \in sessions : Cardinality(ActiveOn(row.date)) <= 1

\* getOrCreateSession has returned its session to initSession.
SessionReturned(m) == gs[m].pc \in {"getSessionMessages", "insertMessage", "done"}

\* C39: getOrCreateSession(sessionType) returns a session of the requested
\* type, also when an active session of the other type, not timed out,
\* exists for today.
C39_ReturnedSessionHasTheRequestedType ==
    \A m \in Mounts :
        SessionReturned(m) => gs[m].session.sessionType = gs[m].sessionType

\* The waits of withRetry in the order the code prescribes them.
RetryWaits == <<1000, 2000>>

\* C32: a failed call of the API is retried up to 3 times: withRetry calls
\* again after each failure, having waited 1 s and then 2 s; the first
\* successful result is returned without any further call; and when the
\* third call has failed the last error is thrown with no further wait.
C32_RetriesWithBackoffThenThrowsLastError ==
    [][LET c == chat["chat1"]
           d == chat'["chat1"]
       IN  /\ c.calls <= MAX_RETRIES
           /\ (c.pc = "api" /\ d.pc = "backoff") =>
                 /\ c.calls < MAX_RETRIES
                 /\ d.calls = c.calls
                 /\ d.delays = SubSeq(RetryWaits, 1, c.calls)
           /\ (c.pc = "backoff" /\ d.pc /= "backoff") =>
                 /\ d.pc = "api"
                 /\ d.calls = c.calls + 1
                 /\ d.delays = c.delays
           /\ (c.pc = "api" /\ d.pc = "insertAI" /\ d.thrown = "none") =>
                 /\ d.calls = c.calls
                 /\ d.delays = c.delays
                 /\ d.msg.content = Reply
           /\ (c.pc \in {"api", "backoff"} /\ d.thrown /= "none") =>
                 /\ c.pc = "api"
                 /\ c.calls = MAX_RETRIES
                 /\ d.calls = c.calls
                 /\ d.delays = RetryWaits
                 /\ d.thrown = d.lastError
                 /\ d.thrown \in ApiErrors]_vars

\* The third call has failed after waits of 1 s and 2 s, and its error is thrown.
C32_Witness ==
    /\ chat["chat1"].calls = MAX_RETRIES
    /\ chat["chat1"].delays = RetryWaits
    /\ chat["chat1"].thrown = "quota"
    /\ chat["chat1"].lastError = "quota"

\* The message the user sent is in the store.
UserMessageStored(c, stored) ==
    \E msg \in stored :
        /\ msg.session_id = c.sessionId
        /\ msg.role = "user"
        /\ msg.content = c.text

\* The fallback response is in the store and is the last message shown.
FallbackStoredAndShown(c, d) ==
    /\ c.msg.content = getFallbackResponse
    /\ c.msg.role = "assistant"
    /\ c.msg.session_id = c.sessionId
    /\ c.msg \in messages'
    /\ Len(d.messages) > 0
    /\ d.messages[Len(d.messages)] =
           ChatMessage("saved", c.msg.id, "assistant", getFallbackResponse)

\* No typing indicator is on the screen.
TypingIndicatorRemoved(c) ==
    /\ ~c.isTyping
    /\ \A i \in 1..Len(c.messages) : c.messages[i].kind /= "typing"

\* C40: whenever sendUserMessage has got as far as calling the API, the
\* user message is in the store, whatever the outcome of the call; when all
\* the attempts have failed the fallback response is stored and shown as the
\* assistant message, and the typing indicator is removed.
C40_UserMessageStoredBeforeApiAndFallbackAfter ==
    [][LET c == chat["chat1"]
           d == chat'["chat1"]
       IN  /\ c.calls > 0 => UserMessageStored(c, messages)
           /\ d.calls > 0 => UserMessageStored(d, messages')
           /\ c.thrown /= "none" => TypingIndicatorRemoved(c)
           /\ (c.thrown /= "none" /\ c.pc = "insertAI" /\ d.pc /= "insertAI") =>
                 /\ FallbackStoredAndShown(c, d)
                 /\ TypingIndicatorRemoved(d)]_vars

\* The fallback response is stored and shown after three failed attempts.
C40_Witness ==
    LET c == chat["chat1"]
    IN  /\ c.pc = "idle"
        /\ Len(c.messages) > 0
        /\ c.messages[Len(c.messages)].content = getFallbackResponse
        /\ \E msg \in messages : msg.content = getFallbackResponse
        /\ \E msg \in messages : msg.role = "user" /\ msg.content = Hi

=============================================================================
